---- MODULE Spec2Model ----
(***************************************************************************)
(* StyleGen-AI backend: the generation pipeline of backend/simple.js       *)
(* (POST /api/designs/generate, generateWithHuggingFace,                   *)
(* generateWithReplicate) and the Hugging Face client of                   *)
(* backend/config/huggingface.js.                                          *)
(*                                                                         *)
(* Further parts: generateFashionPrompt (PromptSpec), the feedback routes   *)
(* of routes/auth.js with the Feedback model (FeedbackSpec), and start-up  *)
(* and shutdown of the server process (ServerSpec).                        *)
(*                                                                         *)
(* One generation request is followed from its arrival to its response.    *)
(* Every callback of the Node event loop (response 'data', 'end', 'error', *)
(* request 'error', socket timeout, timer) is one action; the continuation *)
(* of an `await` runs as a microtask right after the callback that settled *)
(* the promise, before any other callback, so it is part of that action.   *)
(***************************************************************************)
EXTENDS Integers, Sequences, FiniteSets, Bags, TLC

(***************************************************************************)
(* Bounds of the model                                                     *)
(***************************************************************************)
\* longest colors list a request body carries (one more than the code accepts)
MaxColorsLen == 6
\* most 'data' chunks one response delivers
MaxChunks == 2
\* how many destroyed requests still raise an 'error' event in one generation
MaxLateErrors == 1
\* most feedback documents the Feedback collection holds
MaxFeedbacks == 3
\* most SIGTERM/SIGINT signals the process receives
MaxSignals == 2
\* most connections open on the listening server at a time
MaxConns == 2
\* requests that arrive within one minute
MaxArrivals == 31
\* requests POST /generate made to the design routes
MaxDesigns == 3
\* requests that go through authenticateToken concurrently
MaxAuthRequests == 2
\* feedback requests in progress at the same time, and requests in all
MaxFsRequests == 2
MaxFsTotal == 3
\* calls of decrementDesigns on one user
MaxDecrements == 7
\* requests PUT /profile made for one user
MaxPuts == 2
\* designs submitted from the form
MaxSubmits == 2

(***************************************************************************)
(* Program constants                                                       *)
(***************************************************************************)
\* simple.js:50  generateWithHuggingFace = async (prompt, retries = 3)
retries == 3
\* simple.js:88  totalLength > 50 * 1024 * 1024
MaxResponseBytes == 50 * 1024 * 1024
\* simple.js:310  colors.length > 5
MaxColors == 5
\* simple.js:561  port - currentPort < 10
MaxPortOffset == 10
\* simple.js:107, 111, 124/136/145  retry delays in milliseconds
DelayModelLoading == 10000
DelayRateLimited == 5000
DelayNetwork == 2000
\* README.md:112  requests the README says are accepted per minute
RateLimit == 30

\* a body field that is not present (undefined after destructuring)
Absent == "<absent>"
\* a colors value that is not an array (a string, a number, an object)
NotAList == "<not-a-list>"
\* a JSON value whose conversion to a string throws (an object whose toString
\* and valueOf are not callable): Array.prototype.join and template literals
\* raise a TypeError on it
Unprintable == "<unprintable>"
None == "<none>"

\* simple.js:282-284
validGenders == {"male", "female", "unisex", "other"}
validOccasions == {"casual", "formal", "party", "business", "sport", "sports",
                   "wedding", "vacation", "date"}
validStyles == {"modern", "vintage", "bohemian", "minimalist", "classic",
                "trendy", "streetwear", "elegant"}

(***************************************************************************)
(* Request bodies the client may send                                      *)
(***************************************************************************)
Repeat(x, n) == [i \in 1..n |-> x]

ColorLists ==
    {<<>>, <<"teal">>, <<Unprintable>>}
        \cup {<<"teal", "#45B7D1">> \o Repeat("teal", n - 2) : n \in MaxColors..MaxColorsLen}

\* a colors field: missing, present but not an array, or an array
ColorValues ==
    {[kind |-> Absent, items |-> <<>>], [kind |-> NotAList, items |-> <<>>]}
        \cup {[kind |-> "array", items |-> l] : l \in ColorLists}

JsonTrue == "json:true"
JsonFalse == "json:false"

Bodies ==
    [gender : {"female", "robot"},
     occasion : {Absent, "swim"},
     style : {"vintage", "punk"},
     colors : ColorValues,
     demoMode : {Absent, JsonTrue}]

(***************************************************************************)
(* Pure helpers                                                            *)
(***************************************************************************)
\* destructuring default: applies only to a missing (undefined) field
Default(v, d) == IF v = Absent THEN d ELSE v

\* Array.prototype.join with separator ' and ' (token sequence)
RECURSIVE JoinAnd(_)
JoinAnd(s) ==
    IF Len(s) = 0 THEN <<>>
    ELSE IF Len(s) = 1 THEN <<s[1]>>
    ELSE <<s[1], "and">> \o JoinAnd(Tail(s))

\* does building a string from these colors throw?
Throws(colors) == \E i \in 1..Len(colors) : colors[i] = Unprintable

\* simple.js:318  the prompt template, as a sequence of tokens
BuildPrompt(gender, occasion, style, colors) ==
    <<"A professional fashion design illustration of a", style, occasion,
      "outfit for", gender, "featuring">>
    \o JoinAnd(colors)
    \o <<"colors, high-quality fashion illustration, clean professional presentation, fashion portfolio style, detailed clothing design, modern aesthetic, studio lighting, white background">>

\* String.prototype.toUpperCase on the values the model uses
ToUpperCase(s) ==
    CASE s = "vintage" -> "VINTAGE"
      [] s = "modern" -> "MODERN"
      [] s = "casual" -> "CASUAL"
      [] s = "formal" -> "FORMAL"
      [] OTHER -> s

\* ColorOr reading the first color whatever the index
ColorOrFirst(colors, i, fallback) ==
    IF 1 <= Len(colors) /\ colors[1] # "" THEN colors[1] ELSE fallback

\* colors[i] || fallback   (JS indexes from 0: i = 0, 1)
ColorOr(colors, i, fallback) ==
    IF i + 1 <= Len(colors) /\ colors[i + 1] # "" THEN colors[i + 1] ELSE fallback

\* Buffer.prototype.toString('base64'): 3 bytes become 4 sextets (0..63),
\* 64 stands for the padding character '='
RECURSIVE Base64(_)
Base64(b) ==
    IF Len(b) = 0 THEN <<>>
    ELSE IF Len(b) = 1 THEN
        <<b[1] \div 4, (b[1] % 4) * 16, 64, 64>>
    ELSE IF Len(b) = 2 THEN
        <<b[1] \div 4, (b[1] % 4) * 16 + b[2] \div 16, (b[2] % 16) * 4, 64>>
    ELSE
        <<b[1] \div 4, (b[1] % 4) * 16 + b[2] \div 16,
          (b[2] % 16) * 4 + b[3] \div 64, b[3] % 64>>
        \o Base64(SubSeq(b, 4, Len(b)))

\* the text 'svg+xml' in the base64 alphabet (s v g + x m l)
SvgXmlText == <<44, 47, 32, 62, 49, 38, 37>>

\* String.prototype.includes on a sequence of characters
Includes(text, needle) ==
    \E i \in 1..(Len(text) - Len(needle) + 1) :
        SubSeq(text, i, i + Len(needle) - 1) = needle

NoSvg == [kind |-> None, stop0 |-> "", stop1 |-> "", title |-> <<>>,
          sub |-> "", caption |-> <<>>]

\* simple.js:100-101  `data:image/jpeg;base64,${base64Image}`
JpegDataUrl(bytes) ==
    [mime |-> "image/jpeg", b64 |-> Base64(bytes), svg |-> NoSvg]

\* `data:image/svg+xml;base64,...` around an SVG document
SvgDataUrl(svg) == [mime |-> "image/svg+xml", b64 |-> <<>>, svg |-> svg]

\* result.imageUrl.includes('svg+xml')  (simple.js:414): the MIME prefix
\* holds the text for SVG URLs; for JPEG URLs only the base64 text can
UrlIncludesSvgXml(url) ==
    url.mime = "image/svg+xml" \/ Includes(url.b64, SvgXmlText)

\* simple.js:328-347  the demo-mode placeholder
DemoSvg(gender, occasion, style, colors) ==
    [kind |-> "demo",
     stop0 |-> ColorOr(colors, 0, "#FF6B6B"),
     stop1 |-> ColorOr(colors, 1, "#4ECDC4"),
     title |-> <<ToUpperCase(style), ToUpperCase(occasion)>>,
     sub |-> gender,
     caption |-> <<"Demo Mode - Get Hugging Face API Token">>]

\* simple.js:364-386  the placeholder used after both providers failed
FallbackSvg(gender, occasion, style, colors) ==
    [kind |-> "fallback",
     stop0 |-> ColorOr(colors, 0, "#FF6B6B"),
     stop1 |-> ColorOr(colors, 1, "#4ECDC4"),
     title |-> <<ToUpperCase(style), ToUpperCase(occasion)>>,
     sub |-> gender,
     caption |-> <<"API Credits Exceeded", "Get new Hugging Face token">>]

\* simple.js:202-209  the stub generateWithReplicate resolves with
ReplicateSvg ==
    [kind |-> "replicate", stop0 |-> "#4ECDC4", stop1 |-> "", title |-> <<>>,
     sub |-> "", caption |-> <<"Replicate API Processing...">>]

(***************************************************************************)
(* What the providers may answer                                           *)
(***************************************************************************)
HFStatuses == {200, 201, 401, 403, 429, 500, 503}

\* body and content type of a primary-provider response: a JPEG, a JPEG
\* whose base64 text happens to contain 'svg+xml', and a JSON document
JpegBytes == <<255, 216, 255>>
OddJpegBytes == <<178, 248, 62, 198, 105, 64>>
JsonBytes == <<123, 125>>
HFPayloads ==
    {[ctype |-> "image/jpeg", bytes |-> JpegBytes],
     [ctype |-> "image/jpeg", bytes |-> OddJpegBytes],
     [ctype |-> "application/json", bytes |-> JsonBytes]}
\* answers: any payload with status 200, a JPEG with 201, a JSON error body
\* with the other statuses
HFAnswers ==
    {[status |-> 200, ctype |-> p.ctype, bytes |-> p.bytes] : p \in HFPayloads}
    \cup {[status |-> 201, ctype |-> "image/jpeg", bytes |-> JpegBytes]}
    \cup {[status |-> s, ctype |-> "application/json", bytes |-> JsonBytes] :
        s \in HFStatuses \ {200, 201}}

\* sizes of the 'data' chunks: the cap itself is reached by the first chunk
\* and exceeded by the second
ChunkSizes == {MaxResponseBytes}

RPStatuses == {200, 201, 402}

(***************************************************************************)
(* State                                                                   *)
(***************************************************************************)
VARIABLES
    envDemo,      \* process.env.DEMO_MODE === 'true'
    pc,           \* where the route handler is: idle, awaitPrimary, awaitBackup, responded
    req,          \* the destructured request (gender, occasion, style, colors, demoMode)
    prompt,       \* the prompt built for this request
    hfPromise,    \* promise of generateWithHuggingFace: none, pending, resolved, rejected
    hfError,      \* the error the promise was rejected with
    hfReqs,       \* bag of primary requests in flight: [n, total, chunks]
    hfTimers,     \* bag of pending setTimeout callbacks: [n, delay]
    hfSent,       \* number of requests sent to the primary provider
    hfStats,      \* what happened to primary requests so far (counts)
    lateErrors,   \* destroyed requests that raised an 'error' event afterwards
    rp,           \* promise of generateWithReplicate: none, pending, stalled (pending
                  \* for ever), resolved, rejected
    rpSent,       \* number of requests sent to the backup provider
    result,       \* `result` of the route handler
    response,     \* what the route handler answered
    fp,           \* the last call of generateFashionPrompt: argument and outcome
    fbStore,      \* the Feedback collection: sequence of [designId, rating]
    fbAccepted,   \* per design, the number of submissions answered with success
    fbPost,       \* the POST /:id/feedback request being handled
    fbGet,        \* the GET /:id/feedback request being handled
    srvServers,   \* the servers startServer has created, in order: the i-th
                  \* was asked to listen on currentPort + i - 1
    srvRetry,     \* pending setTimeout(() => startServer(newPort)): newPort -
                  \* currentPort, or 0 when none is pending
    srvListeners, \* process.listenerCount('SIGTERM') (= that of 'SIGINT')
    srvCaptured,  \* which server the closure gracefulShutdown closes (0: none)
    srvForce,     \* pending 'forced shutdown' timers
    srvSignals,   \* signals received so far
    srvConns,     \* connections open on the server that listens
    srvExit,      \* exit code of the process, -1 while it runs
    rl,           \* requests through the middleware chain of simple.js
    ds,           \* POST /generate of the design routes and the stored design
    au,           \* authenticateToken: the User collection and the requests
    fs,           \* feedback routes: the documents, the design's statistics
                  \* and the requests in progress
    us,           \* a User document and the answer of checkDesignLimit
    pf,           \* PUT /profile: the User document and the last request
    cl            \* the React state of App and handleDesignSubmit

handlerVars == <<pc, hfPromise, hfError, rp, rpSent, result, response>>
hfVars == <<hfReqs, hfTimers, hfSent, hfStats, lateErrors>>
genVars == <<envDemo, req, prompt, handlerVars, hfVars>>
fpVars == <<fp>>
fbVars == <<fbStore, fbAccepted, fbPost, fbGet>>
srvVars == <<srvServers, srvRetry, srvListeners, srvCaptured, srvForce,
             srvSignals, srvConns, srvExit>>
extVars == <<rl, ds, au, fs, us, pf, cl>>
\* what the generation pipeline of simple.js never touches
notGen == <<fpVars, fbVars, srvVars, extVars>>
\* what generateFashionPrompt never touches
notFp == <<genVars, fbVars, srvVars, extVars>>
\* what the feedback routes never touch
notFb == <<genVars, fpVars, srvVars, extVars>>
\* what start-up and shutdown never touch
notSrv == <<genVars, fpVars, fbVars, extVars>>
\* the four parts above
coreVars == <<genVars, fpVars, fbVars, srvVars>>
vars == <<coreVars, extVars>>

NoReq == [gender |-> None, occasion |-> None, style |-> None,
          colors |-> [kind |-> None, items |-> <<>>], demoMode |-> FALSE]
NoUrl == [mime |-> None, b64 |-> <<>>, svg |-> NoSvg]
NoResult == [imageUrl |-> NoUrl, prompt |-> <<>>, source |-> None]
NoError == [message |-> None, status |-> 0, body |-> <<>>]
NoResponse == [status |-> 0, success |-> FALSE, demoMode |-> FALSE,
               image |-> NoUrl, prompt |-> <<>>, provider |-> None,
               error |-> None]

\* no call of generateFashionPrompt has been made
NoFp == [called |-> FALSE, prefs |-> <<>>, outcome |-> "none", prompt |-> <<>>]
FPIdle == fp = NoFp

\* routes/auth.js:232  the Design collection: the designs that exist
Designs == {"d1", "d2"}
\* the ids feedback requests name: the existing designs and one that is not
\* in the collection
DesignIds == Designs \cup {"dX"}

NoStats == [averageRating |-> <<0, 1>>, totalFeedbacks |-> 0,
            positiveCount |-> 0]
NoPost == [pc |-> "idle", designId |-> None, rating |-> 0, docValid |-> FALSE,
           status |-> 0, stats |-> NoStats]
NoGet == [pc |-> "idle", designId |-> None, before |-> 0, feedbacks |-> 0,
          status |-> 0, stats |-> NoStats]
\* no feedback stored, no feedback request in progress
FBIdle ==
    /\ fbStore = <<>>
    /\ fbAccepted = [d \in Designs |-> 0]
    /\ fbPost = NoPost
    /\ fbGet = NoGet

\* simple.js:544-546  startServer has not been called yet
SrvIdle ==
    /\ srvServers = <<>>
    /\ srvRetry = 0
    /\ srvListeners = 0
    /\ srvCaptured = 0
    /\ srvForce = 0
    /\ srvSignals = 0
    /\ srvConns = 0
    /\ srvExit = -1

\* the parts below at rest
\* no request has come in during the current minute
NoRl == [passed |-> 0, path |-> None, status |-> 0]
RlIdle == rl = NoRl
\* the Design collection by status; no design stored
NoDesigns == [generating |-> 0, completed |-> 0, failed |-> 0]
\* no POST /generate has come in
NoDs == [pc |-> "idle", posts |-> 0,
         body |-> [gender |-> None, modelType |-> None],
         status |-> None, error |-> None,
         stored |-> NoDesigns, own |-> None, ownError |-> None,
         response |-> 0, message |-> None]
DsIdle == ds = NoDs
\* requests that go through authenticateToken
AuReqs == 1 .. MaxAuthRequests
NoAuReq == [pc |-> "idle", token |-> None, found |-> FALSE, status |-> 0]
\* the User collection is empty, no request has come in
AuIdle == au = [users |-> {}, req |-> [r \in AuReqs |-> NoAuReq]]
\* requests the feedback routes handle at the same time
FsReqs == 1 .. MaxFsRequests
NoFsReq == [pc |-> "idle", kind |-> None, rating |-> 0, feedbackId |-> 0,
            stats |-> NoStats, status |-> 0]
\* no feedback document, the design's statistics those of no feedback, no
\* request in progress
FsIdle == fs = [docs |-> <<>>, made |-> 0, total |-> 0,
                design |-> [averageRating |-> <<0, 1>>, totalCount |-> 0],
                req |-> [r \in FsReqs |-> NoFsReq]]
\* no User document yet, checkDesignLimit has not run
NoUs == [exists |-> FALSE, plan |-> None, designsRemaining |-> 0,
         totalDesigns |-> 0, answer |-> 0, nextCalled |-> FALSE]
UsIdle == us = NoUs
\* models/User.js:32-58  preferences of a new user: the defaults of the schema
\* (a list is [kind, items], kind Absent for an undefined one)
DefaultPreferences == [gender |-> "unisex",
                       favoriteColors |-> [kind |-> "array", items |-> <<>>],
                       bodyType |-> "other"]
\* middleware/auth.js:33-39  models/User.js:66-96  the user authenticateToken
\* has created
NewUser == [firebaseUid |-> "uid1", email |-> "a@example.com",
            displayName |-> "a", preferences |-> DefaultPreferences,
            plan |-> "free", designsRemaining |-> 5, totalDesigns |-> 0,
            isActive |-> TRUE]
\* no PUT /profile has come in
PfIdle == pf = [user |-> NewUser, before |-> NewUser, body |-> {},
                 status |-> 0, puts |-> 0]
\* App.jsx:10  generatedDesign is null
NoClDesign == [set |-> FALSE, title |-> None, imageUrl |-> None,
               prompt |-> <<>>, isDemo |-> FALSE, isFavorited |-> FALSE]
NoFormData == [gender |-> None, occasion |-> None, style |-> None,
               colors |-> <<>>]
NoAnswer == [net |-> None, json |-> FALSE, ok |-> FALSE, success |-> FALSE,
             message |-> Absent, error |-> Absent, url |-> Absent,
             prompt |-> Absent]
\* App.jsx:9-11  the state of App after mounting: the form is shown
ClIdle == cl = [pc |-> "idle", isGenerating |-> FALSE,
                 generatedDesign |-> NoClDesign, error |-> None,
                 formData |-> NoFormData, answer |-> NoAnswer,
                 submits |-> 0]
ExtIdle == RlIdle /\ DsIdle /\ AuIdle /\ FsIdle /\ UsIdle /\ PfIdle /\ ClIdle

Init ==
    /\ FPIdle /\ FBIdle /\ SrvIdle /\ ExtIdle
    /\ envDemo \in BOOLEAN
    /\ pc = "idle"
    /\ req = NoReq
    /\ prompt = <<>>
    /\ hfPromise = "none"
    /\ hfError = NoError
    /\ hfReqs = EmptyBag
    /\ hfTimers = EmptyBag
    /\ hfSent = 0
    /\ hfStats = [events |-> 0, destroys |-> 0, s503 |-> 0, wait503 |-> 0]
    /\ lateErrors = 0
    /\ rp = "none"
    /\ rpSent = 0
    /\ result = NoResult
    /\ response = NoResponse

(***************************************************************************)
(* Route handler  app.post('/api/designs/generate')                        *)
(***************************************************************************)
\* simple.js:273-279  destructuring with defaults
Destructure(body) ==
    [gender |-> Default(body.gender, "unisex"),
     occasion |-> Default(body.occasion, "casual"),
     style |-> Default(body.style, "modern"),
     colors |-> IF body.colors.kind = Absent
                THEN [kind |-> "array", items |-> <<"#FF6B6B", "#4ECDC4">>]
                ELSE body.colors,
     demoMode |-> Default(body.demoMode, JsonFalse) = JsonTrue]

\* Validate without the upper limit on the number of colors
ValidateNoMax(r) ==
    IF r.gender \notin validGenders THEN "Invalid gender"
    ELSE IF r.occasion \notin validOccasions THEN "Invalid occasion"
    ELSE IF r.style \notin validStyles THEN "Invalid style"
    ELSE IF \/ r.colors.kind # "array"
            \/ Len(r.colors.items) = 0 THEN "Invalid colors"
    ELSE "ok"

\* simple.js:286-316  the first validation that fails, or "ok"
Validate(r) ==
    IF r.gender \notin validGenders THEN "Invalid gender"
    ELSE IF r.occasion \notin validOccasions THEN "Invalid occasion"
    ELSE IF r.style \notin validStyles THEN "Invalid style"
    ELSE IF \/ r.colors.kind # "array"
            \/ Len(r.colors.items) = 0
            \/ Len(r.colors.items) > MaxColors THEN "Invalid colors"
    ELSE "ok"

\* ForcedDemo looking at the request flag only
ForcedDemoFlagOnly(r) == r.demoMode

\* simple.js:325  demoMode || process.env.DEMO_MODE === 'true'
ForcedDemo(r) == r.demoMode \/ envDemo

\* IsDemo without the look at the image URL
IsDemoFlagsOnly(r, res) == r.demoMode \/ envDemo

\* simple.js:414  isDemo
IsDemo(r, res) == r.demoMode \/ envDemo \/ UrlIncludesSvgXml(res.imageUrl)

\* simple.js:393-421  the success response
SuccessResponse(r, res) ==
    [status |-> 200, success |-> TRUE, demoMode |-> IsDemo(r, res),
     image |-> res.imageUrl, prompt |-> res.prompt,
     provider |-> "Hugging Face", error |-> None]

\* simple.js:287, 295, 303, 311  res.status(400).json(...)
ValidationResponse(err) ==
    [NoResponse EXCEPT !.status = 400, !.error = err]

\* simple.js:423-430  the outer catch
FailureResponse(msg) ==
    [NoResponse EXCEPT !.status = 500, !.error = msg]

\* the handler from `const designResponse` to res.json
Respond(r, res) ==
    /\ result' = res
    /\ response' = SuccessResponse(r, res)
    /\ pc' = "responded"

\* simple.js:76-153  attemptRequest(attemptNumber): one request is written.
\* A request in flight is [n, total, chunks]: its attempt number and the
\* totalLength and number of chunks its 'data' handler has seen.  The
\* response callback (lines 79-82) only attaches the 'data', 'end' and
\* 'error' handlers; its having run is implied by the first of their events.
attemptRequest(reqs, n) ==
    reqs (+) SetToBag({[n |-> n, total |-> 0, chunks |-> 0]})

\* simple.js:268-354  the handler up to its first await (or its response)
PostGenerate(body) ==
    /\ pc = "idle"
    /\ LET r == Destructure(body)
           v == Validate(r)
           items == r.colors.items
       IN /\ req' = r
          /\ IF v # "ok" THEN
                /\ response' = ValidationResponse(v)
                /\ pc' = "responded"
                /\ UNCHANGED <<prompt, result, hfPromise, hfReqs, hfSent>>
             ELSE IF Throws(items) THEN
                \* the template literal of line 318 throws: outer catch
                /\ response' = FailureResponse("TypeError")
                /\ pc' = "responded"
                /\ UNCHANGED <<prompt, result, hfPromise, hfReqs, hfSent>>
             ELSE LET p == BuildPrompt(r.gender, r.occasion, r.style, items) IN
                /\ prompt' = p
                /\ IF ForcedDemo(r) THEN
                      /\ Respond(r, [imageUrl |-> SvgDataUrl(DemoSvg(r.gender,
                                         r.occasion, r.style, items)),
                                     prompt |-> p, source |-> "demo"])
                      /\ UNCHANGED <<hfPromise, hfReqs, hfSent>>
                   ELSE
                      \* generateWithHuggingFace(prompt): attemptRequest(1)
                      /\ hfPromise' = "pending"
                      /\ hfReqs' = attemptRequest(hfReqs, 1)
                      /\ hfSent' = hfSent + 1
                      /\ pc' = "awaitPrimary"
                      /\ UNCHANGED <<result, response>>
    /\ UNCHANGED <<notGen, envDemo, hfError, hfTimers, hfStats, lateErrors,
                   rp, rpSent>>

\* resolve({ imageUrl, prompt }) of generateWithHuggingFace and, when that
\* settles the promise, the handler's continuation (lines 354, 393-421)
ResolvePrimary(value) ==
    IF hfPromise = "pending"
    THEN /\ hfPromise' = "resolved"
         /\ Respond(req, value)
         /\ UNCHANGED <<hfError, rp, rpSent>>
    ELSE UNCHANGED handlerVars

\* reject(error) of generateWithHuggingFace and, when that settles the
\* promise, the handler's catch: generateWithReplicate(prompt) is called
\* and its request written (lines 355-360, 187-226)
RejectPrimary(err) ==
    IF hfPromise = "pending"
    THEN /\ hfPromise' = "rejected"
         /\ hfError' = err
         /\ rp' = "pending"
         /\ rpSent' = rpSent + 1
         /\ pc' = "awaitBackup"
         /\ UNCHANGED <<result, response>>
    ELSE UNCHANGED handlerVars

(***************************************************************************)
(* generateWithHuggingFace: the callbacks of one attempt                   *)
(***************************************************************************)
OneReq(r) == SetToBag({r})
Timer(n, delay) == SetToBag({[n |-> n, delay |-> delay]})

\* bookkeeping of the model: `callbacks` more callbacks have dealt with a
\* primary request; 503 answers are counted separately (status 0 stands for
\* a callback without a status: error, timeout, oversize), and so are the
\* callbacks that called req.destroy() (timeout, oversize); wait503 is the
\* delay of the last retry armed after a 503 answer (set by HFOnEnd)
Count(status, callbacks, destroyed) ==
    [hfStats EXCEPT !.events = @ + callbacks,
                    !.destroys = @ + destroyed,
                    !.s503 = IF status = 503 THEN @ + 1 ELSE @]

\* Classify with every failure status treated as retryable
ClassifyRetryAny(status, n) ==
    IF status = 200 THEN "resolve"
    ELSE IF n <= retries THEN "retry"
    ELSE "reject"

\* simple.js:99-115  what the 'end' handler does with the status of the
\* response to attempt n
Classify(status, n) ==
    IF status = 200 THEN "resolve"
    ELSE IF status = 503 /\ n <= retries THEN "retry"
    ELSE IF status = 429 /\ n <= retries THEN "retry"
    ELSE "reject"

\* StatusDelay with the two delays exchanged
StatusDelaySwapped(status) ==
    IF status = 503 THEN DelayRateLimited ELSE DelayModelLoading

\* simple.js:107, 111  the delay of the retry after a status answer
StatusDelay(status) ==
    IF status = 503 THEN DelayModelLoading ELSE DelayRateLimited

\* MayRetry with one retry too many
MayRetryOneMore(n) == n <= retries + 1

\* simple.js:122-127, 134-139, 143-148  the shared shape of the error and
\* timeout handlers: schedule the next attempt or reject
MayRetry(n) == n <= retries

\* A request destroyed by req.destroy() closes its socket.  Node then
\* raises 'error' ("socket hang up") on the request when no response had
\* arrived, and, in the versions that report aborted responses as errors,
\* 'error' ("aborted") on the response otherwise; older versions raise
\* nothing.  The event is raised from the next-tick queue, that is before
\* any other callback of the event loop, so the handler it reaches (lines
\* 142-149 or 121-128, both of the shape RetryOrReject) runs in the action
\* of the callback that destroyed the request.  late = 1: it is raised.
LateChoices == IF lateErrors < MaxLateErrors THEN {0, 1} ELSE {0}

\* simple.js:83-93  res.on('data')
HFOnData(r, size, late) ==
    /\ BagIn(r, hfReqs) /\ r.chunks < MaxChunks
    /\ late \in LateChoices
    /\ LET totalLength == r.total + size IN
       IF totalLength > MaxResponseBytes THEN
          \* req.destroy(); reject(new Error('Response too large'));
          \* then, if raised, res.on('error') of lines 121-128
          /\ hfReqs' = hfReqs (-) OneReq(r)
          /\ RejectPrimary([message |-> "Response too large", status |-> 0,
                            body |-> <<>>])
          /\ hfStats' = Count(0, 1 + late, 1)
          /\ lateErrors' = lateErrors + late
          /\ hfTimers' = IF late = 1 /\ MayRetry(r.n)
                         THEN hfTimers (+) Timer(r.n + 1, DelayNetwork)
                         ELSE hfTimers
       ELSE
          /\ late = 0
          /\ hfReqs' = (hfReqs (-) OneReq(r))
                         (+) OneReq([r EXCEPT !.total = totalLength,
                                              !.chunks = @ + 1])
          /\ UNCHANGED <<handlerVars, hfStats, lateErrors, hfTimers>>
    /\ UNCHANGED <<notGen, envDemo, req, prompt, hfSent>>

\* simple.js:95-119  res.on('end'); the status line and the body of the
\* response are read here and nowhere before, so they are drawn here
HFOnEnd(r, answer) ==
    /\ BagIn(r, hfReqs)
    /\ hfReqs' = hfReqs (-) OneReq(r)
    /\ hfStats' = [Count(answer.status, 1, 0) EXCEPT !.wait503 =
                       IF answer.status = 503
                           /\ Classify(answer.status, r.n) = "retry"
                       THEN StatusDelay(answer.status) ELSE @]
    /\ LET verdict == Classify(answer.status, r.n) IN
       /\ CASE verdict = "resolve" ->
                 /\ ResolvePrimary([imageUrl |-> JpegDataUrl(answer.bytes),
                                    prompt |-> prompt, source |-> "primary"])
                 /\ UNCHANGED hfTimers
            [] verdict = "retry" ->
                 /\ hfTimers' = hfTimers (+) Timer(r.n + 1, StatusDelay(answer.status))
                 /\ UNCHANGED handlerVars
            [] OTHER ->
                 /\ RejectPrimary([message |-> "Hugging Face API error",
                                   status |-> answer.status,
                                   body |-> answer.bytes])
                 /\ UNCHANGED hfTimers
    /\ UNCHANGED <<notGen, envDemo, req, prompt, hfSent, lateErrors>>

\* simple.js:122-127, 134-139, 143-148  the body shared by the error and
\* timeout handlers, run `times` times in a row for attempt n: schedule the
\* next attempt, or reject
RetryOrReject(n, event, message, times) ==
    /\ hfStats' = Count(0, times, IF event = "timeout" THEN 1 ELSE 0)
    /\ IF MayRetry(n) THEN
          /\ hfTimers' = hfTimers (+) [t \in {[n |-> n + 1, delay |-> DelayNetwork]} |-> times]
          /\ UNCHANGED handlerVars
       ELSE
          /\ RejectPrimary([message |-> message, status |-> 0, body |-> <<>>])
          /\ UNCHANGED hfTimers

\* simple.js:121-128  res.on('error'): the response has started and its
\* stream breaks
HFOnResError(r) ==
    /\ BagIn(r, hfReqs)
    /\ hfReqs' = hfReqs (-) OneReq(r)
    /\ RetryOrReject(r.n, "resError", "Response error", 1)
    /\ UNCHANGED <<notGen, envDemo, req, prompt, hfSent, lateErrors>>

\* simple.js:142-149  req.on('error'): the request fails before a response
HFOnReqError(r) ==
    /\ BagIn(r, hfReqs) /\ r.chunks = 0
    /\ hfReqs' = hfReqs (-) OneReq(r)
    /\ RetryOrReject(r.n, "reqError", "Request error", 1)
    /\ UNCHANGED <<notGen, envDemo, req, prompt, hfSent, lateErrors>>

\* simple.js:132-140  req.setTimeout(120000, ...): the socket stayed idle
\* for the timeout, before or during the response; req.destroy() is called
\* and the handler schedules or rejects; then, if the destroyed request
\* raises its 'error', the error handler does the same once more
HFOnTimeout(r, late) ==
    /\ BagIn(r, hfReqs)
    /\ late \in LateChoices
    /\ lateErrors' = lateErrors + late
    /\ hfReqs' = hfReqs (-) OneReq(r)
    /\ RetryOrReject(r.n, "timeout", "Request timeout after all retries",
                     1 + late)
    /\ UNCHANGED <<notGen, envDemo, req, prompt, hfSent>>

\* HFRetryTimer for a timer that stays armed after it has fired (setInterval)
HFRetryTimerRepeating(t) ==
    /\ BagIn(t, hfTimers)
    /\ hfReqs' = attemptRequest(hfReqs, t.n)
    /\ hfSent' = hfSent + 1
    /\ UNCHANGED <<notGen, envDemo, req, prompt, handlerVars, hfTimers,
                   hfStats, lateErrors>>

\* simple.js:107, 111, 124, 136, 145  a setTimeout callback runs:
\* attemptRequest(attemptNumber + 1)
HFRetryTimer(t) ==
    /\ BagIn(t, hfTimers)
    /\ hfTimers' = hfTimers (-) SetToBag({t})
    /\ hfReqs' = attemptRequest(hfReqs, t.n)
    /\ hfSent' = hfSent + 1
    /\ UNCHANGED <<notGen, envDemo, req, prompt, handlerVars,
                   hfStats, lateErrors>>

(***************************************************************************)
(* generateWithReplicate                                                   *)
(***************************************************************************)
\* simple.js:361-389  the handler's inner catch: the fallback placeholder
FallbackResult ==
    [imageUrl |-> SvgDataUrl(FallbackSvg(req.gender, req.occasion, req.style,
                                         req.colors.items)),
     prompt |-> prompt, source |-> "fallback"]

\* simple.js:201-211  what generateWithReplicate resolves with
ReplicateResult ==
    [imageUrl |-> SvgDataUrl(ReplicateSvg), prompt |-> prompt,
     source |-> "backup"]

\* ReplicateVerdict accepting any of the model's 2xx statuses
ReplicateVerdictAny2xx(status, parsable) ==
    IF ~parsable THEN "parse error"
    ELSE IF status \in {200, 201} THEN "resolved"
    ELSE "api error"

\* simple.js:193-218  how res.on('end') settles the promise
ReplicateVerdict(status, parsable) ==
    IF ~parsable THEN "parse error"
    ELSE IF status = 201 THEN "resolved"
    ELSE "api error"

\* simple.js:187-218  the response arrives and ends (the 'data' handler only
\* appends); JSON.parse runs before the status is looked at
RPOnEnd(status, parsable) ==
    /\ rp = "pending"
    /\ IF ReplicateVerdict(status, parsable) = "resolved"
       THEN rp' = "resolved" /\ Respond(req, ReplicateResult)
       ELSE rp' = "rejected" /\ Respond(req, FallbackResult)
    /\ UNCHANGED <<notGen, envDemo, req, prompt, hfPromise, hfError, rpSent, hfVars>>

\* simple.js:221-223  req.on('error')
RPOnReqError ==
    /\ rp = "pending"
    /\ rp' = "rejected"
    /\ Respond(req, FallbackResult)
    /\ UNCHANGED <<notGen, envDemo, req, prompt, hfPromise, hfError, rpSent, hfVars>>

\* simple.js:187-226  the backup provider accepts the connection and never
\* answers (or breaks off the response: no handler is attached for that):
\* no callback of generateWithReplicate ever runs and no timer is armed
RPNeverAnswers ==
    /\ rp = "pending"
    /\ rp' = "stalled"
    /\ UNCHANGED <<notGen, envDemo, req, prompt, pc, hfPromise, hfError,
                   rpSent, result, response, hfVars>>

(***************************************************************************)
(* config/huggingface.js: generateFashionPrompt                            *)
(***************************************************************************)
\* the value `undefined`, and how a template literal or join prints it
Undefined == "<undefined>"
ToStr(v) == IF v = Undefined \/ v = Absent THEN "undefined" ELSE v

\* huggingface.js:102-123  colorMap
colorMap ==
    ("#FF6B6B" :> "coral red" @@ "#4ECDC4" :> "turquoise"
     @@ "#45B7D1" :> "sky blue" @@ "#96CEB4" :> "mint green"
     @@ "#FFEAA7" :> "golden yellow" @@ "#DDA0DD" :> "lavender"
     @@ "#98D8C8" :> "seafoam green" @@ "#F7DC6F" :> "pale yellow"
     @@ "#BB8FCE" :> "light purple" @@ "#85C1E9" :> "powder blue"
     @@ "#F8C471" :> "peach" @@ "#82E0AA" :> "light green"
     @@ "#F1948A" :> "salmon pink" @@ "#A78BFA" :> "violet purple"
     @@ "#D7BDE2" :> "pale lavender" @@ "#000000" :> "black"
     @@ "#FFFFFF" :> "white" @@ "#808080" :> "gray"
     @@ "#8B4513" :> "brown" @@ "#2F4F4F" :> "dark gray")

\* huggingface.js:140-148  moodDescriptions
moodDescriptions ==
    ("confident" :> "bold and empowering design"
     @@ "romantic" :> "soft and feminine aesthetic"
     @@ "edgy" :> "modern and rebellious style"
     @@ "comfortable" :> "relaxed and casual feel"
     @@ "professional" :> "polished and sophisticated look"
     @@ "playful" :> "fun and creative design"
     @@ "sophisticated" :> "elegant and refined appearance")

\* huggingface.js:154-159  seasonalDetails
seasonalDetails ==
    ("spring" :> "perfect for mild spring weather with light layers"
     @@ "summer" :> "ideal for warm weather with breathable fabrics"
     @@ "fall" :> "suitable for cooler weather with cozy layers"
     @@ "winter" :> "designed for cold weather with warm materials")

\* The three tables are object literals, so they inherit from
\* Object.prototype: a key that is not their own is looked up there.  What
\* the inherited members print as (functions, and the prototype object for
\* __proto__):
ObjectPrototype ==
    ("constructor" :> "function Object() { [native code] }"
     @@ "toString" :> "function toString() { [native code] }"
     @@ "valueOf" :> "function valueOf() { [native code] }"
     @@ "hasOwnProperty" :> "function hasOwnProperty() { [native code] }"
     @@ "__proto__" :> "[object Object]")

\* table[key] on an object literal
Lookup(table, key) ==
    IF key \in DOMAIN table THEN table[key]
    ELSE IF key \in DOMAIN ObjectPrototype THEN ObjectPrototype[key]
    ELSE Undefined

\* a || b  on strings and undefined
OrElse(a, b) == IF a = Undefined \/ a = "" THEN b ELSE a

\* the preference objects the model calls generateFashionPrompt with; a list
\* field is [kind, items] with kind Absent for a missing one
FPList(items) == [kind |-> "array", items |-> items]
FPNoList == [kind |-> Absent, items |-> <<>>]
FPColors ==
    {FPNoList, FPList(<<>>), FPList(<<"#FF6B6B">>), FPList(<<"crimson">>),
     FPList(<<"constructor">>), FPList(<<"#FF6B6B", "crimson">>),
     FPList(<<"crimson", "#4ECDC4">>),
     FPList(<<"#000000", "navy", "#FFFFFF">>)}
FPPreferences ==
    [gender : {"female"}, occasion : {"party"}, style : {"elegant"},
     colors : FPColors,
     patterns : {FPNoList, FPList(<<"floral">>), FPList(<<"floral", "striped">>)},
     materials : {FPNoList, FPList(<<"silk">>)},
     mood : {Absent, "romantic", "mysterious", "valueOf"},
     season : {Absent, "all-season", "summer", "monsoon"}]

\* huggingface.js:100-125  colors.map(color => colorMap[color] || color)
ColorNames(colors) ==
    [i \in 1..Len(colors) |-> OrElse(Lookup(colorMap, colors[i]), colors[i])]

\* huggingface.js:83-167  generateFashionPrompt(preferences): the prompt as
\* a sequence of text pieces
generateFashionPrompt(preferences) ==
    LET patterns == IF preferences.patterns.kind = Absent THEN <<>>
                    ELSE preferences.patterns.items
        materials == IF preferences.materials.kind = Absent THEN <<>>
                     ELSE preferences.materials.items
        mood == Default(preferences.mood, "confident")
        season == Default(preferences.season, "all-season")
        colors == preferences.colors
    IN <<"A professional fashion design illustration of a",
         ToStr(preferences.style), ToStr(preferences.occasion), "outfit for",
         ToStr(preferences.gender), ",">>
       \o (IF colors.kind # Absent /\ Len(colors.items) > 0
           THEN <<"featuring">> \o JoinAnd(ColorNames(colors.items))
                    \o <<"colors,">>
           ELSE <<>>)
       \o (IF Len(patterns) > 0
           THEN <<"with">> \o JoinAnd(patterns) \o <<"patterns,">>
           ELSE <<>>)
       \o (IF Len(materials) > 0
           THEN <<"made from">> \o JoinAnd(materials) \o <<"materials,">>
           ELSE <<>>)
       \o <<"with a", OrElse(Lookup(moodDescriptions, mood), "stylish design"),
            ".">>
       \o (IF season # "all-season"
           THEN <<ToStr(Lookup(seasonalDetails, season)), ".">>
           ELSE <<>>)
       \o <<"High-quality fashion illustration, clean professional presentation, fashion portfolio style, detailed clothing design, modern aesthetic, studio lighting, white background, full outfit view, fashion sketch style, detailed fabric textures, professional fashion photography style">>

\* a caller calls generateFashionPrompt(preferences) and gets the prompt
FPCall(preferences) ==
    /\ fp' = [called |-> TRUE, prefs |-> <<preferences>>,
              outcome |-> "returned",
              prompt |-> generateFashionPrompt(preferences)]
    /\ UNCHANGED notFp

(***************************************************************************)
(* Feedback: routes/auth.js (POST and GET /:id/feedback) and the Feedback   *)
(* model (getAverageRating, getFeedbackSummary).  Every await of a handler  *)
(* is a point where the other handler may run.                             *)
(***************************************************************************)
\* ratings a request body carries: 0 and 6 are outside 1..5
Ratings == {0, 2, 5, 6}

RECURSIVE SumRatings(_)
SumRatings(docs) ==
    IF docs = <<>> THEN 0 ELSE docs[1].rating + SumRatings(Tail(docs))

\* { $match: { designId } }
MatchDesign(docs, designId) ==
    LET OfDesign(f) == f.designId = designId IN SelectSeq(docs, OfDesign)

\* { $sum: { $cond: [{ $gte: ['$rating', 4] }, 1, 0] } }
PositiveCount(docs) ==
    LET IsPositive(f) == f.rating >= 4 IN Len(SelectSeq(docs, IsPositive))

\* getAverageRating aggregating over the feedback of every design
getAverageRatingNoMatch(docs, designId) ==
    IF Len(docs) > 0
    THEN [averageRating |-> <<SumRatings(docs), Len(docs)>>,
          totalFeedbacks |-> Len(docs),
          positiveCount |-> PositiveCount(docs)]
    ELSE NoStats

\* part_000:59-79  Feedback.getAverageRating(designId) on the collection
\* `docs`; $avg is the quotient of the sum and the count, kept as the pair
\* <<sum, count>>, and the literal 0 of the empty case is <<0, 1>>
getAverageRating(docs, designId) ==
    LET matched == MatchDesign(docs, designId) IN
    IF Len(matched) > 0
    THEN [averageRating |-> <<SumRatings(matched), Len(matched)>>,
          totalFeedbacks |-> Len(matched),
          positiveCount |-> PositiveCount(matched)]
    ELSE NoStats

\* auth.js:656-670  POST /:id/feedback: the rating is validated and
\* Design.findById is awaited
FBPostArrive(designId, rating, docValid) ==
    /\ fbPost.pc \in {"idle", "responded"}
    /\ Len(fbStore) < MaxFeedbacks
    /\ fbPost' = IF rating = 0 \/ rating < 1 \/ rating > 5
                 THEN [NoPost EXCEPT !.pc = "responded", !.designId = designId,
                                     !.rating = rating, !.status = 400]
                 ELSE [NoPost EXCEPT !.pc = "findDesign", !.designId = designId,
                                     !.rating = rating, !.docValid = docValid]
    /\ UNCHANGED <<notFb, fbStore, fbAccepted, fbGet>>

\* auth.js:670-697  findById has answered: 404, or the document is built and
\* feedback.save() awaited
FBPostDesignFound ==
    /\ fbPost.pc = "findDesign"
    /\ fbPost' = IF fbPost.designId \in Designs
                 THEN [fbPost EXCEPT !.pc = "save"]
                 ELSE [fbPost EXCEPT !.pc = "responded", !.status = 404]
    /\ UNCHANGED <<notFb, fbStore, fbAccepted, fbGet>>

\* auth.js:697-701, 712-719  save() has answered: a document the schema
\* rejects (comment too long, unknown feedbackType or tag) is not stored and
\* the catch answers 500; otherwise it is stored and getAverageRating awaited
FBPostSaved ==
    /\ fbPost.pc = "save"
    /\ IF fbPost.docValid
       THEN /\ fbStore' = Append(fbStore, [designId |-> fbPost.designId,
                                           rating |-> fbPost.rating])
            /\ fbPost' = [fbPost EXCEPT !.pc = "stats"]
       ELSE /\ fbPost' = [fbPost EXCEPT !.pc = "responded", !.status = 500]
            /\ UNCHANGED fbStore
    /\ UNCHANGED <<notFb, fbAccepted, fbGet>>

\* auth.js:701-710  getAverageRating has answered: res.json(success)
FBPostStats ==
    /\ fbPost.pc = "stats"
    /\ fbPost' = [fbPost EXCEPT !.pc = "responded", !.status = 200,
                    !.stats = getAverageRating(fbStore, fbPost.designId)]
    /\ fbAccepted' = [fbAccepted EXCEPT ![fbPost.designId] = @ + 1]
    /\ UNCHANGED <<notFb, fbStore, fbGet>>

\* auth.js:725-730  GET /:id/feedback: Design.findById is awaited; `before`
\* notes how many submissions for the design had been answered by then
FBGetArrive(designId) ==
    /\ fbGet.pc \in {"idle", "responded"}
    /\ fbGet' = [NoGet EXCEPT !.pc = "findDesign", !.designId = designId,
                   !.before = IF designId \in Designs
                              THEN fbAccepted[designId] ELSE 0]
    /\ UNCHANGED <<notFb, fbStore, fbAccepted, fbPost>>

\* auth.js:730-742, part_000:83  findById has answered: 404, or
\* getFeedbackSummary starts and awaits find({ designId })
FBGetDesignFound ==
    /\ fbGet.pc = "findDesign"
    /\ fbGet' = IF fbGet.designId \in Designs
                THEN [fbGet EXCEPT !.pc = "find"]
                ELSE [fbGet EXCEPT !.pc = "responded", !.status = 404]
    /\ UNCHANGED <<notFb, fbStore, fbAccepted, fbPost>>

\* part_000:83-84  find has answered with the feedback list;
\* getAverageRating is awaited
FBGetFound ==
    /\ fbGet.pc = "find"
    /\ fbGet' = [fbGet EXCEPT !.pc = "stats",
                   !.feedbacks = Len(MatchDesign(fbStore, fbGet.designId))]
    /\ UNCHANGED <<notFb, fbStore, fbAccepted, fbPost>>

\* part_000:84-90, auth.js:744-747  getAverageRating has answered: the
\* summary is returned and res.json(success) sent
FBGetStats ==
    /\ fbGet.pc = "stats"
    /\ fbGet' = [fbGet EXCEPT !.pc = "responded", !.status = 200,
                   !.stats = getAverageRating(fbStore, fbGet.designId)]
    /\ UNCHANGED <<notFb, fbStore, fbAccepted, fbPost>>

(***************************************************************************)
(* simple.js: startServer and gracefulShutdown.  Ports are counted from     *)
(* currentPort: offset 0 is the configured port.                           *)
(***************************************************************************)
\* what app.listen(port) comes to: the 'listening' callback, or the 'error'
\* event with code EADDRINUSE or with another code (EACCES, ...)
ListenOutcomes == {"listening", "EADDRINUSE", "EOTHER"}

\* simple.js:546-604  startServer(port) for port = currentPort + offset,
\* together with the event app.listen raises (from the next tick, before any
\* signal or timer is handled): lines 547-552 or the 'error' handler of
\* lines 555-574; the signal handlers are installed when none is (577-601)
startServer(offset, outcome) ==
    /\ srvServers' = Append(srvServers,
                            IF outcome = "listening" THEN "listening"
                            ELSE "failed")
    /\ IF srvListeners = 0
       THEN srvListeners' = 1 /\ srvCaptured' = Len(srvServers) + 1
       ELSE UNCHANGED <<srvListeners, srvCaptured>>
    /\ CASE outcome = "listening" ->
              srvRetry' = 0 /\ UNCHANGED srvExit
         [] outcome = "EADDRINUSE" /\ offset < MaxPortOffset ->
              srvRetry' = offset + 1 /\ UNCHANGED srvExit
         [] OTHER ->
              srvRetry' = 0 /\ srvExit' = 1
    /\ UNCHANGED <<notSrv, srvForce, srvSignals, srvConns>>

\* simple.js:618 (module level)  startServer()
SrvStart(outcome) ==
    /\ srvExit = -1 /\ srvServers = <<>>
    /\ startServer(0, outcome)

\* simple.js:564  the timer of the retry fires: startServer(newPort)
SrvRetryTimer(outcome) ==
    /\ srvExit = -1 /\ srvRetry # 0
    /\ startServer(srvRetry, outcome)

\* simple.js:578-596, 599-600  SIGTERM or SIGINT: gracefulShutdown calls
\* close on the server its closure holds and arms the 10 s timer.  close on
\* a server that is not listening calls back with ERR_SERVER_NOT_RUNNING
\* (from the next tick): exit(1).  close on a listening server stops it
\* accepting; its callback waits for the connections to end.
SrvSignal ==
    /\ srvExit = -1 /\ srvListeners > 0 /\ srvSignals < MaxSignals
    /\ srvSignals' = srvSignals + 1
    /\ srvForce' = srvForce + 1
    /\ CASE srvServers[srvCaptured] = "listening" ->
              /\ srvServers' = [srvServers EXCEPT ![srvCaptured] = "closing"]
              /\ UNCHANGED srvExit
         [] srvServers[srvCaptured] = "closing" ->
              UNCHANGED <<srvServers, srvExit>>
         [] OTHER ->
              /\ srvExit' = 1
              /\ UNCHANGED srvServers
    /\ UNCHANGED <<notSrv, srvRetry, srvListeners, srvCaptured, srvConns>>

\* a client connects to the server that listens (a server that is closing
\* accepts no connection)
SrvConnect ==
    /\ srvExit = -1 /\ srvConns < MaxConns
    /\ \E i \in 1..Len(srvServers) : srvServers[i] = "listening"
    /\ srvConns' = srvConns + 1
    /\ UNCHANGED <<notSrv, srvServers, srvRetry, srvListeners, srvCaptured,
                   srvForce, srvSignals, srvExit>>

\* a connection ends
SrvDisconnect ==
    /\ srvExit = -1 /\ srvConns > 0
    /\ srvConns' = srvConns - 1
    /\ UNCHANGED <<notSrv, srvServers, srvRetry, srvListeners, srvCaptured,
                   srvForce, srvSignals, srvExit>>

\* simple.js:581-589  the closing server has no connection left: 'close',
\* and the callback of the first close call runs: exit(0)
SrvClosed ==
    /\ srvExit = -1 /\ srvCaptured # 0 /\ srvConns = 0
    /\ srvServers[srvCaptured] = "closing"
    /\ srvServers' = [srvServers EXCEPT ![srvCaptured] = "closed"]
    /\ srvExit' = 0
    /\ UNCHANGED <<notSrv, srvRetry, srvListeners, srvCaptured, srvForce,
                   srvSignals, srvConns>>

\* simple.js:592-595  the 10 s timer fires first: exit(1)
SrvForceTimer ==
    /\ srvExit = -1 /\ srvForce > 0
    /\ srvForce' = srvForce - 1
    /\ srvExit' = 1
    /\ UNCHANGED <<notSrv, srvServers, srvRetry, srvListeners, srvCaptured,
                   srvSignals, srvConns>>

(***************************************************************************)
(* Specification                                                           *)
(***************************************************************************)
Next ==
    \/ \E body \in Bodies : PostGenerate(body)
    \/ \E r \in BagToSet(hfReqs), size \in ChunkSizes, late \in {0, 1} :
          HFOnData(r, size, late)
    \/ \E r \in BagToSet(hfReqs), answer \in HFAnswers : HFOnEnd(r, answer)
    \/ \E r \in BagToSet(hfReqs) : HFOnResError(r)
    \/ \E r \in BagToSet(hfReqs) : HFOnReqError(r)
    \/ \E r \in BagToSet(hfReqs), late \in {0, 1} : HFOnTimeout(r, late)
    \/ \E t \in BagToSet(hfTimers) : HFRetryTimer(t)
    \/ \E status \in RPStatuses, parsable \in BOOLEAN : RPOnEnd(status, parsable)
    \/ RPOnReqError
    \/ RPNeverAnswers

Spec == Init /\ [][Next]_vars

\* The event loop runs every callback that is due: a timer that is pending
\* fires, a request that is in flight gets one of its events (at the latest
\* its socket timeout, where one is set), and a backup request whose
\* provider answers at all gets its answer.
HFEvents ==
    \/ \E r \in BagToSet(hfReqs), size \in ChunkSizes, late \in {0, 1} :
          HFOnData(r, size, late)
    \/ \E r \in BagToSet(hfReqs), answer \in HFAnswers : HFOnEnd(r, answer)
    \/ \E r \in BagToSet(hfReqs) : HFOnResError(r)
    \/ \E r \in BagToSet(hfReqs) : HFOnReqError(r)
    \/ \E r \in BagToSet(hfReqs), late \in {0, 1} : HFOnTimeout(r, late)
HFTimersFire == \E t \in BagToSet(hfTimers) : HFRetryTimer(t)
RPEvents ==
    \/ \E status \in RPStatuses, parsable \in BOOLEAN : RPOnEnd(status, parsable)
    \/ RPOnReqError

FairSpec ==
    /\ Spec
    /\ WF_vars(\E body \in Bodies : PostGenerate(body))
    /\ WF_vars(HFEvents)
    /\ WF_vars(HFTimersFire)
    /\ WF_vars(RPEvents)

\* the generation pipeline at rest
GenIdle ==
    /\ envDemo = FALSE
    /\ pc = "idle"
    /\ req = NoReq
    /\ prompt = <<>>
    /\ hfPromise = "none"
    /\ hfError = NoError
    /\ hfReqs = EmptyBag
    /\ hfTimers = EmptyBag
    /\ hfSent = 0
    /\ hfStats = [events |-> 0, destroys |-> 0, s503 |-> 0, wait503 |-> 0]
    /\ lateErrors = 0
    /\ rp = "none"
    /\ rpSent = 0
    /\ result = NoResult
    /\ response = NoResponse

\* generateFashionPrompt called any number of times with any preferences
PromptInit == GenIdle /\ FPIdle /\ FBIdle /\ SrvIdle /\ ExtIdle
PromptNext == \E preferences \in FPPreferences : FPCall(preferences)
PromptSpec == PromptInit /\ [][PromptNext]_vars

\* feedback submitted and read, the two handlers interleaving at their awaits
FeedbackInit == GenIdle /\ FPIdle /\ FBIdle /\ SrvIdle /\ ExtIdle
FeedbackNext ==
    \/ \E designId \in DesignIds, rating \in Ratings, docValid \in BOOLEAN :
          FBPostArrive(designId, rating, docValid)
    \/ FBPostDesignFound
    \/ FBPostSaved
    \/ FBPostStats
    \/ \E designId \in DesignIds : FBGetArrive(designId)
    \/ FBGetDesignFound
    \/ FBGetFound
    \/ FBGetStats
FeedbackSpec == FeedbackInit /\ [][FeedbackNext]_vars

\* start-up and shutdown of the server process
ServerInit == GenIdle /\ FPIdle /\ FBIdle /\ SrvIdle /\ ExtIdle
ServerNext ==
    \/ \E outcome \in ListenOutcomes : SrvStart(outcome)
    \/ \E outcome \in ListenOutcomes : SrvRetryTimer(outcome)
    \/ SrvSignal
    \/ SrvConnect
    \/ SrvDisconnect
    \/ SrvClosed
    \/ SrvForceTimer
ServerSpec == ServerInit /\ [][ServerNext]_vars

(***************************************************************************)
(* simple.js: the middleware chain every request goes through              *)
(***************************************************************************)
\* simple.js:231, 241, 251, 536  the routes that answer at once, and a path
\* no route matches
RlPaths == {"/api/health", "/api/test", "/api/designs/models", "/nowhere"}
RlRoutes == RlPaths \ {"/nowhere"}

\* what the frame of the middleware chain leaves alone
notRl == <<coreVars, ds, au, fs, us, pf, cl>>

\* simple.js:28-47, 231-262, 521-542  one request: cors, express.json,
\* express.urlencoded and the logger, which calls next() for every request;
\* then the route, the 404 handler, or the error handler when the body did
\* not parse.  rl.passed counts the requests the logger handed on since the
\* minute began.
RlRequest(path, bodyOk) ==
    /\ rl.passed < MaxArrivals
    /\ rl' = IF ~bodyOk
               THEN [rl EXCEPT !.path = path, !.status = 500]
               ELSE [passed |-> rl.passed + 1,
                     path |-> path,
                     status |-> IF path \in RlRoutes THEN 200 ELSE 404]
    /\ UNCHANGED notRl

\* a minute of wall-clock time passes; no code of simple.js runs
RlMinute ==
    /\ rl.passed > 0
    /\ rl' = [rl EXCEPT !.passed = 0]
    /\ UNCHANGED notRl

RateInit == GenIdle /\ FPIdle /\ FBIdle /\ SrvIdle /\ ExtIdle
RateNext ==
    \/ \E path \in RlPaths, bodyOk \in BOOLEAN : RlRequest(path, bodyOk)
    \/ RlMinute
RateSpec == RateInit /\ [][RateNext]_vars

(***************************************************************************)
(* routes/auth.js: POST /generate of the design routes                     *)
(***************************************************************************)
\* middleware/auth.js:200-204, 249-253  enums of the design schema
schemaGenders == {"male", "female", "unisex", "other"}
schemaModels == {"sdxl", "sd15", "flux", "playground", "dall-e-3", "dall-e-2"}

\* request bodies: gender given and known to the schema, given and unknown,
\* or missing; modelType a key of FASHION_MODELS the schema knows or not
DsBodies == [gender : {"female", "robot", Absent}, modelType : {"sdxl", "sd21"}]

\* config/huggingface.js:205-211, 250-260  what generateDesign throws
DsErrors == {"Invalid Hugging Face API token. Please check your configuration.",
             "Model is loading. Please try again in 1-2 minutes.",
             "Rate limit exceeded. Please try again in a few minutes.",
             "Design generation failed"}
\* what design.save() throws
DsSaveError == "save failed"

\* middleware/auth.js:200-204, 249-253  validation run by design.save()
DsSchemaValid(body) ==
    body.gender \in schemaGenders /\ body.modelType \in schemaModels

\* what the design route leaves alone
notDs == <<coreVars, rl, au, fs, us, pf, cl>>

\* routes/auth.js:293-342  the request arrives: 400 when a required field is
\* missing, else the document is built with status 'generating'
DsPost(body) ==
    /\ ds.pc \in {"idle", "answered"}
    /\ ds.posts < MaxDesigns
    /\ ds' = IF body.gender = Absent
               THEN [ds EXCEPT !.pc = "answered", !.posts = @ + 1,
                               !.body = body, !.status = None,
                               !.error = None, !.own = None,
                               !.ownError = None, !.response = 400,
                               !.message = "Missing required fields"]
               ELSE [ds EXCEPT !.pc = "save1", !.posts = @ + 1,
                               !.body = body, !.status = "generating",
                               !.error = None, !.own = None,
                               !.ownError = None, !.response = 0,
                               !.message = None]
    /\ UNCHANGED notDs

\* routes/auth.js:344, 420-427  await design.save() of the new document: it
\* is stored, or save throws (validation, database) and the outer catch
\* answers 500
DsSaveInitial(dbOk) ==
    /\ ds.pc = "save1"
    /\ ds' = IF DsSchemaValid(ds.body) /\ dbOk
               THEN [ds EXCEPT !.pc = "generate", !.own = "generating",
                               !.stored.generating = @ + 1]
               ELSE [ds EXCEPT !.pc = "answered", !.response = 500,
                               !.message = DsSaveError]
    /\ UNCHANGED notDs

\* routes/auth.js:348-385, 407-414  await generateHuggingFaceDesign: on
\* success status becomes 'completed' (in memory), on a throw the catch block
\* sets 'failed' and the error
DsGenerated(outcome) ==
    /\ ds.pc = "generate"
    /\ ds' = IF outcome = "ok"
               THEN [ds EXCEPT !.pc = "save2", !.status = "completed"]
               ELSE [ds EXCEPT !.pc = "save3", !.status = "failed",
                               !.error = outcome]
    /\ UNCHANGED notDs

\* routes/auth.js:388-405, 407-414  await design.save() of the completed
\* design: stored and answered with success, or save throws inside the try
\* block and the catch block sets 'failed' and the error
DsSaveCompleted(dbOk) ==
    /\ ds.pc = "save2"
    /\ ds' = IF dbOk
               THEN [ds EXCEPT !.pc = "answered", !.own = "completed",
                               !.stored.generating = @ - 1,
                               !.stored.completed = @ + 1,
                               !.response = 200,
                               !.message = "Design generated and saved successfully"]
               ELSE [ds EXCEPT !.pc = "save3", !.status = "failed",
                               !.error = DsSaveError]
    /\ UNCHANGED notDs

\* routes/auth.js:415-427  await design.save() in the catch block: stored and
\* generationError rethrown, or save throws its own error; either way the
\* outer catch answers 500 with the message of what was thrown
DsSaveFailed(dbOk) ==
    /\ ds.pc = "save3"
    /\ ds' = IF dbOk
               THEN [ds EXCEPT !.pc = "answered", !.own = "failed",
                               !.ownError = ds.error,
                               !.stored.generating = @ - 1,
                               !.stored.failed = @ + 1,
                               !.response = 500, !.message = ds.error]
               ELSE [ds EXCEPT !.pc = "answered", !.response = 500,
                               !.message = DsSaveError]
    /\ UNCHANGED notDs

DesignInit == GenIdle /\ FPIdle /\ FBIdle /\ SrvIdle /\ ExtIdle
DesignNext ==
    \/ \E body \in DsBodies : DsPost(body)
    \/ \E dbOk \in BOOLEAN : DsSaveInitial(dbOk)
    \/ \E outcome \in {"ok"} \cup DsErrors : DsGenerated(outcome)
    \/ \E dbOk \in BOOLEAN : DsSaveCompleted(dbOk)
    \/ \E dbOk \in BOOLEAN : DsSaveFailed(dbOk)
DesignSpec == DesignInit /\ [][DesignNext]_vars

(***************************************************************************)
(* middleware/auth.js: authenticateToken                                   *)
(***************************************************************************)
\* the Firebase uids valid tokens are issued for
AuUids == {"uid1", "uid2"}
\* what the Authorization header carries: nothing, a token Firebase
\* rejects, or a valid token for a uid
AuTokens == {Absent, "expired"} \cup AuUids

\* what authenticateToken leaves alone
notAu == <<coreVars, rl, ds, fs, us, pf, cl>>

\* middleware/auth.js:5-26  the request arrives: 401 without a header or a
\* token, else verifyIdToken is awaited
AuArrive(r, token) ==
    /\ au.req[r].pc = "idle"
    /\ au' = [au EXCEPT !.req[r] =
                 IF token = Absent
                 THEN [@ EXCEPT !.pc = "done", !.token = token, !.status = 401]
                 ELSE [@ EXCEPT !.pc = "verify", !.token = token]]
    /\ UNCHANGED notAu

\* middleware/auth.js:26-29, 54-62  config/firebase.js:60  verifyIdToken
\* returns the decoded token, or throws 'Token verification failed' and the
\* catch block answers 401
AuVerified(r) ==
    /\ au.req[r].pc = "verify"
    /\ au' = [au EXCEPT !.req[r] =
                 IF @.token \in AuUids
                 THEN [@ EXCEPT !.pc = "find"]
                 ELSE [@ EXCEPT !.pc = "done", !.status = 401]]
    /\ UNCHANGED notAu

\* middleware/auth.js:29  models/User.js:120-122  await findByFirebaseUid:
\* the document with this uid, or null
AuFound(r) ==
    /\ au.req[r].pc = "find"
    /\ au' = [au EXCEPT !.req[r].pc = "save",
                         !.req[r].found = au.req[r].token \in au.users]
    /\ UNCHANGED notAu

\* middleware/auth.js:31-53, 54-68  models/User.js:5-10  await user.save():
\* the update of the user found, or the insert of the new user, which the
\* unique index on firebaseUid rejects when a document with this uid has been
\* inserted meanwhile; the catch block then answers 500.  Otherwise req.user
\* is set and next() called (status 200 here).
AuSaved(r) ==
    /\ au.req[r].pc = "save"
    /\ LET q == au.req[r]
       IN au' = IF q.found
                THEN [au EXCEPT !.req[r].pc = "done", !.req[r].status = 200]
                ELSE IF q.token \in au.users
                THEN [au EXCEPT !.req[r].pc = "done", !.req[r].status = 500]
                ELSE [au EXCEPT !.users = @ \cup {q.token},
                                !.req[r].pc = "done", !.req[r].status = 200]
    /\ UNCHANGED notAu

\* the connection of an answered request is used for the next request
AuNextRequest(r) ==
    /\ au.req[r].pc = "done"
    /\ au' = [au EXCEPT !.req[r] = NoAuReq]
    /\ UNCHANGED notAu

AuthInit == GenIdle /\ FPIdle /\ FBIdle /\ SrvIdle /\ ExtIdle
AuthNext ==
    \/ \E r \in AuReqs, token \in AuTokens : AuArrive(r, token)
    \/ \E r \in AuReqs : AuVerified(r)
    \/ \E r \in AuReqs : AuFound(r)
    \/ \E r \in AuReqs : AuSaved(r)
    \/ \E r \in AuReqs : AuNextRequest(r)
AuthSpec == AuthInit /\ [][AuthNext]_vars

(***************************************************************************)
(* part_001: the feedback routes, submissions and deletions                *)
(***************************************************************************)
\* the design the requests are about
FsDesign == "d1"
\* ratings a submission carries: none or 0, and two the route accepts
FsRatings == {0, 2, 5}
\* the ids a deletion may name
FsIds == 1 .. MaxFsTotal

\* what the feedback routes leave alone
notFs == <<coreVars, rl, ds, au, us, pf, cl>>

\* the documents of the collection without the one with this _id
FsWithout(docs, id) ==
    LET Other(f) == f.id # id IN SelectSeq(docs, Other)

\* part_001:7-42  POST /designs/:designId/feedback: the rating is checked
\* (400), the design looked up and the document built; feedback.save() is
\* awaited
FsPostArrive(r, rating) ==
    /\ fs.req[r].pc = "idle"
    /\ fs.total < MaxFsTotal
    /\ fs' = [fs EXCEPT !.total = @ + 1,
                 !.req[r] =
                   IF rating = 0 \/ rating < 1 \/ rating > 5
                   THEN [@ EXCEPT !.pc = "done", !.kind = "post",
                                  !.rating = rating, !.status = 400]
                   ELSE [@ EXCEPT !.pc = "save", !.kind = "post",
                                  !.rating = rating]]
    /\ UNCHANGED notFs

\* part_001:44-47  feedback.save() has stored the document;
\* Feedback.getAverageRating is awaited
FsPostSaved(r) ==
    /\ fs.req[r].pc = "save"
    /\ fs' = [fs EXCEPT !.made = @ + 1,
                 !.docs = Append(@, [designId |-> FsDesign,
                                     rating |-> fs.req[r].rating,
                                     id |-> fs.made + 1]),
                 !.req[r].pc = "stats"]
    /\ UNCHANGED notFs

\* part_001:202-206  DELETE /feedback/:feedbackId: findByIdAndDelete is
\* awaited
FsDeleteArrive(r, feedbackId) ==
    /\ fs.req[r].pc = "idle"
    /\ fs.total < MaxFsTotal
    /\ fs' = [fs EXCEPT !.total = @ + 1,
                 !.req[r] = [@ EXCEPT !.pc = "delete", !.kind = "delete",
                                      !.feedbackId = feedbackId]]
    /\ UNCHANGED notFs

\* part_001:206-216  findByIdAndDelete has removed the document, or found
\* none (404); Feedback.getAverageRating is awaited
FsDeleted(r) ==
    /\ fs.req[r].pc = "delete"
    /\ fs' = IF \E i \in 1 .. Len(fs.docs) : fs.docs[i].id = fs.req[r].feedbackId
               THEN [fs EXCEPT !.docs = FsWithout(@, fs.req[r].feedbackId),
                               !.req[r].pc = "stats"]
               ELSE [fs EXCEPT !.req[r].pc = "done", !.req[r].status = 404]
    /\ UNCHANGED notFs

\* part_001:47-48, 216-217  getAverageRating has aggregated the collection;
\* Design.findByIdAndUpdate is awaited
FsStats(r) ==
    /\ fs.req[r].pc = "stats"
    /\ fs' = [fs EXCEPT !.req[r].pc = "update",
                         !.req[r].stats = getAverageRating(fs.docs, FsDesign)]
    /\ UNCHANGED notFs

\* part_001:48-61, 217-226  findByIdAndUpdate has written the statistics the
\* request read to the design; the request is answered with success
FsDesignUpdated(r) ==
    /\ fs.req[r].pc = "update"
    /\ fs' = [fs EXCEPT !.design = [averageRating |-> fs.req[r].stats.averageRating,
                                    totalCount |-> fs.req[r].stats.totalFeedbacks],
                         !.req[r].pc = "done", !.req[r].status = 200]
    /\ UNCHANGED notFs

\* the next request comes in where an answered one was
FsNextRequest(r) ==
    /\ fs.req[r].pc = "done"
    /\ fs' = [fs EXCEPT !.req[r] = NoFsReq]
    /\ UNCHANGED notFs

FeedbackRaceInit == GenIdle /\ FPIdle /\ FBIdle /\ SrvIdle /\ ExtIdle
FeedbackRaceNext ==
    \/ \E r \in FsReqs, rating \in FsRatings : FsPostArrive(r, rating)
    \/ \E r \in FsReqs : FsPostSaved(r)
    \/ \E r \in FsReqs, feedbackId \in FsIds : FsDeleteArrive(r, feedbackId)
    \/ \E r \in FsReqs : FsDeleted(r)
    \/ \E r \in FsReqs : FsStats(r)
    \/ \E r \in FsReqs : FsDesignUpdated(r)
    \/ \E r \in FsReqs : FsNextRequest(r)
FeedbackRaceSpec == FeedbackRaceInit /\ [][FeedbackRaceNext]_vars

(***************************************************************************)
(* models/User.js, middleware/auth.js: the design limit of a user          *)
(***************************************************************************)
\* models/User.js:76-80  plans of the schema
UsPlans == {"free", "premium", "pro"}
\* models/User.js:82  default of subscription.designsRemaining
DefaultDesignsRemaining == 5
\* routes/auth.js:201-205  limits by plan
limits == [free |-> 5, premium |-> 50, pro |-> -1]

\* what the operations on the user leave alone
notUs == <<coreVars, rl, ds, au, fs, pf, cl>>

\* models/User.js:106-109
canGenerateDesign(user) ==
    IF user.plan # "free" THEN TRUE ELSE user.designsRemaining > 0

\* decrementDesigns without the test of what remains
decrementDesignsUnguarded(user) ==
    [user EXCEPT !.designsRemaining = IF user.plan = "free" THEN @ - 1 ELSE @,
                 !.totalDesigns = @ + 1]

\* models/User.js:111-117
decrementDesigns(user) ==
    [user EXCEPT !.designsRemaining =
                    IF user.plan = "free" /\ user.designsRemaining > 0
                    THEN @ - 1 ELSE @,
                 !.totalDesigns = @ + 1]

\* models/User.js:66-88  a User document with the defaults of the schema
UsCreate(plan) ==
    /\ ~us.exists
    /\ us' = [exists |-> TRUE, plan |-> plan,
              designsRemaining |-> DefaultDesignsRemaining,
              totalDesigns |-> 0, answer |-> 0, nextCalled |-> FALSE]
    /\ UNCHANGED notUs

\* models/User.js:111-117  user.decrementDesigns()
UsDecrement ==
    /\ us.exists
    /\ us.totalDesigns < MaxDecrements
    /\ us' = decrementDesigns(us)
    /\ UNCHANGED notUs

\* middleware/auth.js:72-93  checkDesignLimit: 403 when the user cannot
\* generate, else next()
UsCheckLimit ==
    /\ us.exists
    /\ us' = IF ~canGenerateDesign(us)
               THEN [us EXCEPT !.answer = 403, !.nextCalled = FALSE]
               ELSE [us EXCEPT !.answer = 0, !.nextCalled = TRUE]
    /\ UNCHANGED notUs

\* routes/auth.js:197-215  POST /refresh-limits:
\* designsRemaining = limits[plan] || 5
UsRefreshLimits ==
    /\ us.exists
    /\ us' = [us EXCEPT !.designsRemaining =
                           IF limits[us.plan] # 0 THEN limits[us.plan] ELSE 5,
                         !.answer = 200, !.nextCalled = FALSE]
    /\ UNCHANGED notUs

LimitInit == GenIdle /\ FPIdle /\ FBIdle /\ SrvIdle /\ ExtIdle
LimitNext ==
    \/ \E plan \in UsPlans : UsCreate(plan)
    \/ UsDecrement
    \/ UsCheckLimit
    \/ UsRefreshLimits
LimitSpec == LimitInit /\ [][LimitNext]_vars

(***************************************************************************)
(* routes/auth.js: PUT /profile                                            *)
(***************************************************************************)
\* routes/auth.js:87-95  allowedUpdates, as far as the model has the fields
allowedUpdates == {"displayName", "preferences.gender",
                   "preferences.favoriteColors", "preferences.bodyType"}
\* the keys a request body may have, and the value it gives each
PfKeys == allowedUpdates \cup {"email", "subscription.plan"}
PfValue == [displayName |-> "b", gender |-> "female",
            favoriteColors |-> FPList(<<"red">>), bodyType |-> "tall",
            email |-> "b@example.com", plan |-> "pro"]
PfChildren == {"gender", "favoriteColors", "bodyType"}
\* routes/auth.js:103  key.split('.') of an allowed nested key
PfChildOf(key) ==
    CASE key = "preferences.gender" -> "gender"
      [] key = "preferences.favoriteColors" -> "favoriteColors"
      [] key = "preferences.bodyType" -> "bodyType"

\* what PUT /profile leaves alone
notPf == <<coreVars, rl, ds, au, fs, us, cl>>

\* routes/auth.js:98-110  updateData.preferences: the children the body
\* names under an allowed key, or no such property at all
PfNamedChildren(body) ==
    {PfChildOf(key) : key \in (body \cap allowedUpdates) \ {"displayName"}}

\* routes/auth.js:113  Object.assign(user, updateData): user.displayName and
\* user.preferences are assigned when updateData has them.  The assigned
\* preferences object holds the named children only; a child it does not
\* hold is undefined afterwards or, where the document fills in defaults,
\* the default of the schema (`lost` says which).
PfAssign(user, body, lost) ==
    LET named == PfNamedChildren(body)
        preferences ==
            IF named = {} THEN user.preferences
            ELSE [f \in PfChildren |->
                    IF f \in named THEN PfValue[f]
                    ELSE IF lost = "default" THEN DefaultPreferences[f]
                    ELSE IF f = "favoriteColors" THEN FPNoList
                    ELSE Undefined]
    IN [user EXCEPT !.displayName =
                       IF "displayName" \in body THEN PfValue.displayName ELSE @,
                    !.preferences = preferences]

\* routes/auth.js:81-130  PUT /profile with a body that has the keys `body`
PfPut(body, lost) ==
    /\ pf.puts < MaxPuts
    /\ pf' = [user |-> PfAssign(pf.user, body, lost), before |-> pf.user,
              body |-> body, status |-> 200, puts |-> pf.puts + 1]
    /\ UNCHANGED notPf

ProfileInit == GenIdle /\ FPIdle /\ FBIdle /\ SrvIdle /\ ExtIdle
ProfileNext ==
    \E body \in SUBSET PfKeys, lost \in {"undefined", "default"} :
        PfPut(body, lost)
ProfileSpec == ProfileInit /\ [][ProfileNext]_vars

(***************************************************************************)
(* frontend/src/App.jsx: handleDesignSubmit                                *)
(***************************************************************************)
\* App.jsx:286-297  what the form submits
ClForms == [gender : {"unisex"}, occasion : {"casual", "formal"},
            style : {"modern"}, colors : {<<>>, <<"#FF6B6B">>}]

\* what comes back for POST /designs/generate: no connection, a body that is
\* not JSON, an error status with message, with error only or with neither,
\* a 2xx answer with success false, and 2xx answers with success true, with
\* and without an image and a prompt
ClAnswer(net, json, ok, success, message, error, url, aiPrompt) ==
    [net |-> net, json |-> json, ok |-> ok, success |-> success,
     message |-> message, error |-> error, url |-> url, prompt |-> aiPrompt]
ClAnswers ==
    { ClAnswer("down", FALSE, FALSE, FALSE, Absent, Absent, Absent, Absent),
      ClAnswer("up", FALSE, TRUE, FALSE, Absent, Absent, Absent, Absent),
      ClAnswer("up", TRUE, FALSE, FALSE, "Design generation failed",
               "provider error", Absent, Absent),
      ClAnswer("up", TRUE, FALSE, FALSE, "Replicate billing is not set up",
               "Design generation failed", Absent, Absent),
      ClAnswer("up", TRUE, FALSE, FALSE, Absent, "Missing required fields",
               Absent, Absent),
      ClAnswer("up", TRUE, FALSE, FALSE, Absent, Absent, Absent, Absent),
      ClAnswer("up", TRUE, TRUE, FALSE, Absent, Absent, Absent, Absent),
      ClAnswer("up", TRUE, TRUE, FALSE, "", Absent, Absent, Absent),
      ClAnswer("up", TRUE, TRUE, FALSE, "try later", Absent, Absent, Absent),
      ClAnswer("up", TRUE, TRUE, TRUE, "Design generated successfully",
               Absent, "data:image/jpeg", "fashion prompt"),
      ClAnswer("up", TRUE, TRUE, TRUE, "Design generated successfully",
               Absent, Absent, Absent) }

\* a || b for strings: b when a is undefined or empty
ClOr(a, b) == IF a = Absent \/ a = "" THEN b ELSE a

\* message.includes('billing'), for the messages of ClAnswers
ClIncludesBilling(message) == message = "Replicate billing is not set up"

\* App.jsx:1042-1065  ApiClient.request: the parsed body, or a throw: of
\* fetch, of response.json(), or for a status that is not ok with
\* data.message || data.error || 'Request failed'
ClRequest(answer) ==
    IF answer.net = "down"
    THEN [thrown |-> TRUE, message |-> "Failed to fetch"]
    ELSE IF ~answer.json
    THEN [thrown |-> TRUE, message |-> "Unexpected token < in JSON"]
    ELSE IF ~answer.ok
    THEN [thrown |-> TRUE,
          message |-> ClOr(answer.message, ClOr(answer.error, "Request failed"))]
    ELSE [thrown |-> FALSE, message |-> None]

\* the try block throwing for a failed API call only
ClThrownRequestOnly(answer) ==
    IF ClRequest(answer).thrown THEN ClRequest(answer)
    ELSE [thrown |-> FALSE, message |-> None]

\* App.jsx:42-57  what the try block throws, if it does: the error of the
\* API call, or new Error(response.message || 'Design generation failed')
\* when success is false
ClThrown(answer) ==
    IF ClRequest(answer).thrown THEN ClRequest(answer)
    ELSE IF ~answer.success
    THEN [thrown |-> TRUE,
          message |-> ClOr(answer.message, "Design generation failed")]
    ELSE [thrown |-> FALSE, message |-> None]

\* App.jsx:62-67  errorMessage of the catch block
ClErrorMessage(message) ==
    IF ClIncludesBilling(message)
    THEN "Replicate billing required. Please set up billing at replicate.com/account/billing to generate real designs."
    ELSE ClOr(message, "Failed to generate design. Please try again.")

\* App.jsx:45-53  the design shown for a success answer
ClRealDesign(answer, formData) ==
    [set |-> TRUE, title |-> "response.design.title",
     imageUrl |-> ClOr(answer.url,
        "https://via.placeholder.com/512x512/EC4899/FFFFFF?text=Design+Generated"),
     prompt |-> IF answer.prompt = Absent \/ answer.prompt = ""
                THEN <<formData.style, " ", formData.occasion, " outfit">>
                ELSE <<answer.prompt>>,
     isDemo |-> FALSE, isFavorited |-> FALSE]

\* App.jsx:63-67, 72-80  the mock design shown when the call failed
ClDemoDesign(message, formData) ==
    [set |-> TRUE, title |-> "Demo Fashion Design",
     imageUrl |-> IF ClIncludesBilling(message)
                  THEN "https://via.placeholder.com/512x512/EC4899/FFFFFF?text=Demo+Design+(Billing+Required)"
                  ELSE "https://via.placeholder.com/512x512/EC4899/FFFFFF?text=Demo+Design+(API+Error)",
     prompt |-> <<formData.style, " ", formData.occasion, " outfit for ",
                  formData.gender, " in ">> \o formData.colors \o <<" colors">>,
     isDemo |-> TRUE, isFavorited |-> FALSE]

\* what the handlers of App leave alone
notCl == <<coreVars, rl, ds, au, fs, us, pf>>

\* App.jsx:34-42, 245-246, 393-395  the form, shown while no design is, is
\* submitted: isGenerating true, error null, the API call awaited
ClSubmit(formData) ==
    /\ cl.pc = "idle"
    /\ cl.submits < MaxSubmits
    /\ cl' = [cl EXCEPT !.pc = "awaiting", !.isGenerating = TRUE,
                        !.error = None, !.formData = formData,
                        !.answer = NoAnswer, !.submits = @ + 1]
    /\ UNCHANGED notCl

\* App.jsx:42-84  the API call has settled: the design of the answer is
\* shown, or the catch block sets the error and shows a mock design; finally
\* isGenerating is false
ClSettled(answer) ==
    /\ cl.pc = "awaiting"
    /\ LET thrown == ClThrown(answer)
       IN cl' = IF thrown.thrown
                THEN [cl EXCEPT !.pc = "finished", !.answer = answer,
                         !.error = ClErrorMessage(thrown.message),
                         !.generatedDesign =
                             ClDemoDesign(thrown.message, cl.formData),
                         !.isGenerating = FALSE]
                ELSE [cl EXCEPT !.pc = "finished", !.answer = answer,
                         !.generatedDesign = ClRealDesign(answer, cl.formData),
                         !.isGenerating = FALSE]
    /\ UNCHANGED notCl

\* App.jsx:144-164  handleFavorite: a demo design is toggled locally, another
\* one after toggleFavorite succeeded
ClFavorite(apiOk) ==
    /\ cl.pc = "finished"
    /\ cl' = IF cl.generatedDesign.isDemo \/ apiOk
               THEN [cl EXCEPT !.generatedDesign.isFavorited = ~@]
               ELSE cl
    /\ UNCHANGED notCl

\* App.jsx:184-187  handleBack: the form is shown again
ClBack ==
    /\ cl.pc = "finished"
    /\ cl' = [cl EXCEPT !.pc = "idle", !.generatedDesign = NoClDesign,
                        !.error = None]
    /\ UNCHANGED notCl

ClientInit == GenIdle /\ FPIdle /\ FBIdle /\ SrvIdle /\ ExtIdle
ClientNext ==
    \/ \E formData \in ClForms : ClSubmit(formData)
    \/ \E answer \in ClAnswers : ClSettled(answer)
    \/ \E apiOk \in BOOLEAN : ClFavorite(apiOk)
    \/ ClBack
ClientSpec == ClientInit /\ [][ClientNext]_vars

(***************************************************************************)
(* Properties                                                              *)
(***************************************************************************)
Answered == pc = "responded"
ProviderCalled == hfSent > 0 \/ rpSent > 0

\* C1: when the primary call and the backup call have both failed, the
\* handler answers 200 with success, the fallback SVG placeholder and
\* demoMode = true; once a provider has been called the answer is never a
\* 500 (nor a 400).
C1_PlaceholderAfterBothFail ==
    /\ (hfPromise = "rejected" /\ rp = "rejected") =>
          /\ Answered
          /\ response.status = 200 /\ response.success
          /\ response.image.mime = "image/svg+xml"
          /\ response.image.svg.kind = "fallback"
          /\ response.demoMode
    /\ ProviderCalled => response.status \in {0, 200}

C1_Witness ==
    /\ hfPromise = "rejected" /\ rp = "rejected"
    /\ response.status = 200 /\ response.demoMode

\* C2: every valid generation request that has started a provider call
\* eventually gets its response.
C2_EveryRequestCompletes ==
    [](pc \in {"awaitPrimary", "awaitBackup"} => <>Answered)

\* C3: the tiers are used in the order primary, backup, placeholder: the
\* backup request is sent only once the primary call has failed, the
\* fallback placeholder is built only once the backup call has failed, and
\* no request goes to the primary provider after its call has been settled
\* (resolved with the result, or given up).
C3_TierOrder ==
    [][/\ rpSent' > rpSent => hfPromise' = "rejected"
       /\ (result'.source = "fallback" /\ result.source # "fallback")
             => (hfPromise' = "rejected" /\ rp' = "rejected")
       /\ hfSent' > hfSent => hfPromise' = "pending"]_vars

\* C4: when the primary provider has answered 503 twice and then 200 (three
\* callbacks in all, two of them 503 answers, and the call resolved), exactly
\* 3 requests were sent to it, nothing was sent to the backup provider, no
\* placeholder was built and the response carries the primary provider's
\* image (a JPEG data URL) attributed to it.
C4_Scenario ==
    hfStats.events = 3 /\ hfStats.s503 = 2 /\ hfPromise = "resolved"

C5_FatalStatusNotRetried ==
    /\ [][\A r \in BagToSet(hfReqs), a \in HFAnswers :
            (a.status \in {401, 403} /\ HFOnEnd(r, a)) =>
                /\ hfTimers' = hfTimers /\ hfSent' = hfSent
                /\ hfPromise' # "pending"
                /\ hfPromise = "pending" =>
                      /\ hfPromise' = "rejected"
                      /\ pc' = "awaitBackup" /\ rpSent' = rpSent + 1]_vars
    /\ []((hfStats.events = 1 /\ hfError.status \in {401, 403}) =>
            /\ hfSent = 1 /\ hfReqs = EmptyBag /\ hfTimers = EmptyBag
            /\ rpSent = 1)

C5_Witness ==
    /\ hfStats.events = 1 /\ hfError.status = 401
    /\ hfSent = 1 /\ pc = "awaitBackup"

C7_BackupOnce ==
    /\ [](rpSent <= 1)
    /\ [](rp = "rejected" =>
             /\ rpSent = 1 /\ Answered
             /\ result.source = "fallback" /\ response.status = 200)
    /\ [][/\ \A status \in RPStatuses, parsable \in BOOLEAN :
               (RPOnEnd(status, parsable) /\ (status # 201 \/ ~parsable))
                   => (rp' = "rejected" /\ rpSent' = rpSent)
          /\ RPOnReqError => (rp' = "rejected" /\ rpSent' = rpSent)]_vars

C7_Witness ==
    rp = "rejected" /\ rpSent = 1 /\ result.source = "fallback"

\* C8: a request whose colors value is not a list, is empty or has more than
\* 5 entries, or whose gender, occasion or style is not allowed, is answered
\* 400 with no provider called and no placeholder built; whenever a provider
\* has been called or a placeholder built, colors is a list of 1 to 5 entries.
C8_InvalidRequest ==
    \/ req.colors.kind # "array"
    \/ Len(req.colors.items) = 0
    \/ Len(req.colors.items) > 5
    \/ req.gender \notin {"male", "female", "unisex", "other"}
    \/ req.occasion \notin {"casual", "formal", "party", "business", "sport",
                            "sports", "wedding", "vacation", "date"}
    \/ req.style \notin {"modern", "vintage", "bohemian", "minimalist",
                         "classic", "trendy", "streetwear", "elegant"}

C8_ValidationFirst ==
    /\ (pc # "idle" /\ C8_InvalidRequest) =>
          /\ response.status = 400
          /\ hfSent = 0 /\ rpSent = 0 /\ hfPromise = "none" /\ rp = "none"
          /\ result = NoResult
    /\ (ProviderCalled \/ result # NoResult) =>
          /\ req.colors.kind = "array"
          /\ Len(req.colors.items) \in 1..5

C8_Witness ==
    /\ req.colors.kind = "array" /\ Len(req.colors.items) = 6
    /\ req.gender = "female" /\ req.style = "vintage"
    /\ response.status = 400 /\ hfSent = 0

\* C9: the primary client counts a response as success only when its status
\* is 2xx and its content type is an image; 503 and 429 are retryable; every
\* other status is fatal: the call is rejected with status and body in the
\* error and nothing is retried.
C9_IsImage(ctype) == ctype = "image/jpeg"

C9_Classification ==
    [][\A r \in BagToSet(hfReqs), a \in HFAnswers :
          (HFOnEnd(r, a) /\ hfPromise = "pending") =>
              /\ hfPromise' = "resolved"
                    <=> (a.status \in 200..299 /\ C9_IsImage(a.ctype))
              /\ (a.status \notin 200..299 /\ a.status \notin {503, 429}) =>
                    /\ hfPromise' = "rejected"
                    /\ hfError'.status = a.status /\ hfError'.body = a.bytes
                    /\ hfTimers' = hfTimers]_vars

\* C10: when the buffered bytes exceed the cap the call fails with 'Response
\* too large', which is not retried: the handler of the oversized chunk
\* leaves no retry scheduled, and once the call has been rejected for that
\* reason no further request is sent to the primary provider.
C10_OversizeIsFatal ==
    /\ [][\A r \in BagToSet(hfReqs), size \in ChunkSizes, late \in {0, 1} :
            (HFOnData(r, size, late) /\ r.total + size > MaxResponseBytes) =>
                /\ hfTimers' = hfTimers
                /\ hfPromise' = "rejected"]_vars
    /\ [][hfError.message = "Response too large" => hfSent' = hfSent]_vars

\* C11: when demo mode is forced (demoMode true in the body, or DEMO_MODE=true
\* in the environment), a request that passes validation and whose colors are
\* printable values is answered at once with 200, the demo placeholder built
\* from its own preferences and demoMode = true, and neither provider has been
\* called; a forced-demo request never reaches a provider.
C11_ValidRequest ==
    /\ pc # "idle"
    /\ req.gender \in validGenders /\ req.occasion \in validOccasions
    /\ req.style \in validStyles
    /\ req.colors.kind = "array" /\ Len(req.colors.items) \in 1..MaxColors
    /\ \A i \in 1..Len(req.colors.items) : req.colors.items[i] # Unprintable

C11_ForcedDemoIsLocal ==
    /\ (C11_ValidRequest /\ (req.demoMode \/ envDemo)) =>
          /\ Answered
          /\ response.status = 200 /\ response.success /\ response.demoMode
          /\ response.image.mime = "image/svg+xml"
          /\ response.image.svg.kind = "demo"
          /\ response.image.svg.sub = req.gender
          /\ result.source = "demo"
    /\ (req.demoMode \/ (pc # "idle" /\ envDemo)) =>
          /\ hfSent = 0 /\ rpSent = 0 /\ hfPromise = "none" /\ rp = "none"
          /\ hfReqs = EmptyBag /\ hfTimers = EmptyBag

C11_Witness ==
    /\ C11_ValidRequest /\ envDemo /\ ~req.demoMode
    /\ response.status = 200 /\ response.image.svg.kind = "demo"
    /\ hfSent = 0 /\ rpSent = 0

\* C12: every successful response carries a non-empty prompt and a provider
\* attribution that names the tier that produced the returned image: the
\* primary provider, the backup provider or the placeholder generator.
C12_Attribution(source) ==
    CASE source = "primary" -> "Hugging Face"
      [] source = "backup" -> "Replicate"
      [] OTHER -> "placeholder"

C12_ProviderAttribution ==
    response.success =>
        /\ response.prompt # <<>>
        /\ response.provider = C12_Attribution(result.source)

\* C13: the delay before a retry depends on the failure class only: 10 s after
\* a 503 answer, 5 s after a 429 answer, 2 s after a network error or a
\* timeout, with 10 s > 5 s > 2 s, whatever the attempt number; each handler
\* schedules the attempt that follows its own, and a timer that fires sends
\* exactly one request, with the attempt number the timer was armed for.
C13_NewTimers(n, delay) ==
    /\ hfTimers' # hfTimers
    /\ \A t \in BagToSet(hfTimers') :
          t \in BagToSet(hfTimers)
          \/ t = [n |-> n + 1, delay |-> delay]
    /\ \A t \in BagToSet(hfTimers) :
          t # [n |-> n + 1, delay |-> delay] =>
              CopiesIn(t, hfTimers') = CopiesIn(t, hfTimers)
    /\ CopiesIn([n |-> n + 1, delay |-> delay], hfTimers') >
          CopiesIn([n |-> n + 1, delay |-> delay], hfTimers)

C14_Color(i, fallback) ==
    IF Len(req.colors.items) >= i THEN req.colors.items[i] ELSE fallback

C14_PlaceholderFromPreferences ==
    result.source \in {"demo", "fallback"} =>
        /\ response.image = result.imageUrl
        /\ response.image.mime = "image/svg+xml"
        /\ response.image.svg.kind = result.source
        /\ response.image.svg.stop0 = C14_Color(1, "#FF6B6B")
        /\ response.image.svg.stop1 = C14_Color(2, "#4ECDC4")
        /\ response.image.svg.title =
              <<ToUpperCase(req.style), ToUpperCase(req.occasion)>>
        /\ response.image.svg.sub = req.gender
        /\ response.image.svg.caption =
              IF result.source = "demo"
              THEN <<"Demo Mode - Get Hugging Face API Token">>
              ELSE <<"API Credits Exceeded", "Get new Hugging Face token">>

C14_Witness ==
    /\ result.source = "fallback"
    /\ req.colors.items = <<"teal">>
    /\ response.image.svg.stop0 = "teal"
    /\ response.image.svg.stop1 = "#4ECDC4"

C15_Arg == fp.prefs[1]

\* the text pieces of a prompt from position `from` on
C16_From(from) == SubSeq(fp.prompt, from, Len(fp.prompt))

\* C15: in the prompt returned for a non-empty colors list, the color clause
\* is 'featuring', then the colors in the order given, joined with 'and', then
\* 'colors,'; a color that is a key of the hex-to-name table appears as its
\* name and every other color appears as the raw token itself.
C15_Name(token) ==
    CASE token = "#FF6B6B" -> "coral red"
      [] token = "#4ECDC4" -> "turquoise"
      [] token = "#000000" -> "black"
      [] token = "#FFFFFF" -> "white"
      [] OTHER -> token

C15_ColorClause ==
    (fp.called /\ C15_Arg.colors.kind = "array" /\ Len(C15_Arg.colors.items) > 0) =>
        LET items == C15_Arg.colors.items
            n == Len(items)
        IN /\ fp.outcome = "returned"
           /\ Len(fp.prompt) >= 6 + 2 * n + 1
           /\ fp.prompt[7] = "featuring"
           /\ \A i \in 1..n : fp.prompt[6 + 2 * i] = C15_Name(items[i])
           /\ \A i \in 1..(n - 1) : fp.prompt[7 + 2 * i] = "and"
           /\ fp.prompt[6 + 2 * n + 1] = "colors,"

\* C16: every call returns a prompt; a mood that is not in the mood table
\* gives the generic phrase 'stylish design'; season 'all-season' or no
\* season adds no season clause; a season of the table adds its clause; any
\* other season adds text that is not a missing value: the piece 'undefined'
\* never appears in a prompt.
C16_Ending ==
    <<"High-quality fashion illustration, clean professional presentation, fashion portfolio style, detailed clothing design, modern aesthetic, studio lighting, white background, full outfit view, fashion sketch style, detailed fabric textures, professional fashion photography style">>

C16_MoodTable ==
    {"confident", "romantic", "edgy", "comfortable", "professional",
     "playful", "sophisticated"}

C16_GracefulDefaults ==
    fp.called =>
        /\ fp.outcome = "returned"
        /\ \A i \in 1..Len(fp.prompt) : fp.prompt[i] # "undefined"
        /\ (C15_Arg.mood # Absent /\ C15_Arg.mood \notin C16_MoodTable) =>
              Includes(fp.prompt, <<"with a", "stylish design", ".">>)
        /\ C15_Arg.season \in {Absent, "all-season"} =>
              \E i \in 1..Len(fp.prompt) :
                  /\ fp.prompt[i] = "with a"
                  /\ C16_From(i + 3) = C16_Ending
        /\ C15_Arg.season = "summer" =>
              Includes(fp.prompt,
                       <<"ideal for warm weather with breathable fabrics", ".">>
                           \o C16_Ending)

\* C18: the statistics a successful GET /:id/feedback returns are those of the
\* stored feedback of that design: positiveCount <= totalFeedbacks;
\* totalFeedbacks is at least the number of submissions that had been
\* answered with success when the GET arrived and at most the number stored;
\* without feedback all three values are 0; and when nothing has been stored
\* for the design since the GET arrived, totalFeedbacks is the number of
\* accepted submissions, averageRating the mean of their ratings and
\* positiveCount the number of ratings of 4 or more.  The statistics in the
\* answer to a successful submission count that submission.
C18_Stored(designId) ==
    LET OfDesign(f) == f.designId = designId IN SelectSeq(fbStore, OfDesign)

C19_Listening == \E i \in 1..Len(srvServers) : srvServers[i] # "failed"

C19_PortRetry ==
    /\ [](Len(srvServers) <= 10)
    /\ []((srvServers # <<>> /\ srvSignals = 0) =>
             \/ C19_Listening /\ srvRetry = 0 /\ srvExit = -1
             \/ ~C19_Listening /\ srvRetry = Len(srvServers) /\ srvExit = -1
             \/ ~C19_Listening /\ srvRetry = 0 /\ srvExit = 1)
    /\ [][/\ SrvStart("EOTHER") => (srvExit' = 1 /\ srvRetry' = 0)
          /\ SrvRetryTimer("EOTHER") => (srvExit' = 1 /\ srvRetry' = 0)]_vars

\* C20: a signal that arrives while a server is listening closes that server
\* and leaves the process running until the server has closed (exit 0) or
\* the 10 s timer fires (exit 1); exit code 0 is reached only by a closed
\* server; the signal handlers are installed exactly once, however many
\* times startServer has run.
C20_GracefulShutdown ==
    /\ [](srvServers # <<>> => srvListeners = 1)
    /\ [](srvExit = 0 =>
             \E i \in 1..Len(srvServers) : srvServers[i] = "closed")
    /\ [][\A i \in 1..Len(srvServers) :
             (SrvSignal /\ srvServers[i] = "listening") =>
                 (srvServers'[i] = "closing" /\ srvExit' = -1)]_vars

\* C21: after 503 answers the server retries with exponential backoff: the
\* wait armed after a 503 answer is strictly longer than the wait armed
\* after the previous 503 answer of the same generation request.
C21_ExponentialBackoff ==
    [][(/\ hfStats'.s503 = hfStats.s503 + 1
        /\ hfTimers' # hfTimers
        /\ hfStats.wait503 > 0)
          => hfStats'.wait503 > hfStats.wait503]_vars

\* C23: within one generateWithHuggingFace call a failed attempt schedules at
\* most one follow-up: no attempt number is in flight or scheduled twice, at
\* most one request is in flight at a time, a request in flight and a pending
\* retry never coexist, and at most retries + 1 requests are sent.
C23_OneFollowUp ==
    /\ \A r \in BagToSet(hfReqs) : CopiesIn(r, hfReqs) = 1
    /\ \A t \in BagToSet(hfTimers) : CopiesIn(t, hfTimers) = 1
    /\ BagCardinality(hfReqs) + BagCardinality(hfTimers) <= 1
    /\ hfSent <= retries + 1

\* C25: in a success response demoMode is false exactly when the returned
\* image was produced by the primary provider; it is true for forced demo
\* mode, for the fallback placeholder and for the stub of the backup provider.
C25_DemoFlag ==
    response.success =>
        /\ response.demoMode = FALSE <=> result.source = "primary"
        /\ result.source \in {"demo", "fallback", "backup"} => response.demoMode

\* C22: a request that arrives after 30 requests were accepted within the same
\* minute is rejected with 'Too many requests': never more than 30 requests
\* get past the middleware chain in one minute, and none is answered 429
\* before that.  simple.js installs no limiter, so the 31st request is served.
C22_RateLimited ==
    /\ rl.passed <= RateLimit
    /\ rl.status = 429 => rl.passed >= RateLimit

\* C24: by the time POST /generate has answered, the design it stored with
\* status 'generating' has been moved on: a success response goes with a
\* stored 'completed' design, a 500 response with a stored 'failed' design and
\* its error, and no stored design is left in 'generating', also when a save
\* fails.  When the save in the catch block throws, the design stays
\* 'generating'.
C24_DesignSettled ==
    ds.pc \in {"idle", "answered"} =>
        /\ ds.stored.generating = 0
        /\ ds.response = 200 => ds.own = "completed"
        /\ (ds.response = 500 /\ ds.own # None) =>
               (ds.own = "failed" /\ ds.ownError # None)

\* C26: every request that carries a valid token is authenticated (req.user
\* set, next called) and not answered with an error, also when several of
\* them, for the same not yet registered uid, are processed concurrently.
\* The second insert is rejected by the unique index and answered 500.
C26_AllAuthenticated ==
    \A r \in AuReqs :
        (au.req[r].pc = "done" /\ au.req[r].token \in AuUids)
            => au.req[r].status = 200

\* C27: once every feedback submission and deletion for a design has
\* completed, the statistics stored on the design equal the count and the
\* mean rating of the feedback documents that exist for it.  Two requests
\* that read the statistics in one order and write them in the other leave
\* the older figures on the design.
C27_StatsMatchDocuments ==
    (\A r \in FsReqs : fs.req[r].pc \in {"idle", "done"}) =>
        /\ fs.design.totalCount = Len(MatchDesign(fs.docs, FsDesign))
        /\ fs.design.averageRating =
              getAverageRating(fs.docs, FsDesign).averageRating

\* C28: for a user on the free plan designsRemaining never drops below 0
\* whatever the sequence of decrementDesigns calls; checkDesignLimit answers
\* 403 without calling next exactly when the plan is 'free' and
\* designsRemaining is 0 or less, and calls next otherwise; every
\* decrementDesigns call adds exactly 1 to stats.totalDesigns, also when
\* nothing remains, and takes at most 1 from designsRemaining.
C28_DesignLimit ==
    /\ [](us.exists /\ us.plan = "free" => us.designsRemaining >= 0)
    /\ [][UsCheckLimit =>
            IF us.plan = "free" /\ us.designsRemaining <= 0
            THEN us'.answer = 403 /\ ~us'.nextCalled
            ELSE us'.nextCalled /\ us'.answer # 403]_vars
    /\ [][UsDecrement =>
            /\ us'.totalDesigns = us.totalDesigns + 1
            /\ us'.designsRemaining \in
                  {us.designsRemaining, us.designsRemaining - 1}
            /\ us.designsRemaining <= 0 =>
                  us'.designsRemaining = us.designsRemaining]_vars

\* C28 witness: a free user with nothing left, decrementDesigns called more
\* often than designs were available, checkDesignLimit answered 403
C28_Witness ==
    /\ us.exists /\ us.plan = "free" /\ us.designsRemaining = 0
    /\ us.totalDesigns > DefaultDesignsRemaining
    /\ us.answer = 403 /\ ~us.nextCalled

\* C29: PUT /profile leaves email, firebaseUid, subscription, stats and
\* account status as they were, whatever the body, and a preference field the
\* body does not name keeps the value it had before the update.  Naming one
\* preference field replaces the whole preferences object, so the others are
\* lost.
C29_ProfileFrame ==
    pf.status = 200 =>
        /\ pf.user.email = pf.before.email
        /\ pf.user.firebaseUid = pf.before.firebaseUid
        /\ pf.user.plan = pf.before.plan
        /\ pf.user.designsRemaining = pf.before.designsRemaining
        /\ pf.user.totalDesigns = pf.before.totalDesigns
        /\ pf.user.isActive = pf.before.isActive
        /\ \A f \in PfChildren \ PfNamedChildren(pf.body) :
              pf.user.preferences[f] = pf.before.preferences[f]

\* the API call of the last submission returned success
C30_Success == cl.answer.net = "up" /\ cl.answer.json /\ cl.answer.ok
               /\ cl.answer.success

\* C30: after handleDesignSubmit has finished, isGenerating is false and a
\* design is displayed; when the API call returned success=false or threw, a
\* non-empty error message is set and the design is a demo design flagged
\* isDemo; when it returned success, the error is null and the design is not
\* flagged isDemo.
C30_AfterSubmit ==
    cl.pc = "finished" =>
        /\ ~cl.isGenerating
        /\ cl.generatedDesign.set
        /\ cl.generatedDesign.imageUrl \notin {None, Absent, ""}
        /\ IF C30_Success
           THEN cl.error = None /\ ~cl.generatedDesign.isDemo
           ELSE cl.error \notin {None, Absent, ""} /\ cl.generatedDesign.isDemo

\* C30 witness: the call returned success false with an empty message; the
\* fallback text is the error and a demo design is shown
C30_Witness ==
    /\ cl.pc = "finished" /\ cl.answer.ok /\ ~cl.answer.success
    /\ cl.answer.message = ""
    /\ cl.error = "Design generation failed"
    /\ cl.generatedDesign.isDemo

====
